---- MODULE Spec2Model ----
(***************************************************************************)
(* A model of lspeak: the daemon's request queue (daemon/server.py), the   *)
(* semantic cache (cache/manager.py, cache/similarity.py, cache/storage.py)*)
(* and the TTS pipeline (tts/pipeline.py).                                 *)
(*                                                                         *)
(* Three families of specifications share the variables:                   *)
(*   Spec, SpecLive   the daemon: handle_speak, handle_queue_status and    *)
(*                    the queue worker process_queue                       *)
(*   SpecCache        SemanticCacheManager.get_cached_audio / cache_audio  *)
(*   SpecPipeline     TTSPipeline.process over that cache                  *)
(***************************************************************************)
EXTENDS Integers, Sequences, FiniteSets, TLC

VARIABLES
    \* ---- LspeakDaemon (daemon/server.py:177-197) ----
    speech_queue,    \* asyncio.Queue[QueueItem]: ids of the items not yet dequeued
    queue_items,     \* the tracking list: ids in append order
    current_item,    \* id of the item the worker holds, or None
    item_params,     \* QueueItem.params of every item created so far, by id
    worker_pc,       \* where process_queue stands: "get", "call", "await", "finish"
    worker_raised,   \* whether the awaited _process_speech_async raised
    running,         \* the task that holds the event loop: "loop" (free) or "worker"
    responses,       \* what the handlers answered, in order
    \* ---- history of the daemon run (not program state) ----
    enqueued,        \* ids in the order speech_queue.put received them
    dequeued,        \* ids in the order speech_queue.get returned them
    started,         \* ids whose pipeline the worker has invoked, in order
    finished,        \* ids whose pipeline call has come back, in order
    outcomes,        \* what each finished pipeline call returned, by id
    n_speak,         \* speak requests handled so far
    n_status,        \* queue_status requests handled so far
    \* ---- SemanticCacheManager and its cache directory (cache/manager.py) ----
    threshold,       \* SemanticCacheManager.threshold, in thousandths
    embeddings,      \* SimilarityIndex.embeddings = the FAISS index: vectors by position
    db,              \* rows of the cache table of cache.db, in insertion order
    files,           \* the audio directory: path -> bytes, for the files that exist
    last_put,        \* the latest cache_audio call: arguments and outcome
    last_get,        \* the latest get_cached_audio call: arguments and outcome
    last_op,         \* the latest cache call: "none", "put" or "get"
    n_puts,          \* cache_audio calls so far
    n_gets,          \* get_cached_audio calls so far
    n_env,           \* out-of-band changes to the cache directory so far
    \* ---- TTSPipeline (tts/pipeline.py) ----
    cache_manager,   \* TTSPipeline.cache_manager: None or "loaded"
    runs,            \* the process() calls so far, each with what it did
    \* ---- daemon processes and what they share (daemon/__main__.py, server.py) ----
    daemon_pc,       \* where each daemon process is in main() / start()
    lock_holder,     \* the process holding the flock on daemon.lock, or None
    sock_file,       \* who bound the socket file at socket_path, or None if absent
    listening,       \* per process: its Unix server is open
    models_loaded,   \* per process: LspeakDaemon.models_loaded
    worker_task,     \* per process: queue_processor_task
    http_task,       \* per process: http_server_task
    sigterm,         \* per process: SIGTERM has been sent to it
    daemon_error,    \* per process: the exception start() ended with, or None
    probe_result,    \* per process: what its probe of the socket file found
    status_seen,     \* the models_loaded values returned in status responses
    http_enabled,    \* LSPEAK_HTTP_PORT is set
    cleanup_socket,  \* closing an asyncio Unix server removes its socket file
    \* ---- one caller of speak_text (core.py) ----
    st_call,         \* the arguments of the latest call, NoCall before the first
    st_pc,           \* where the call is
    st_requests,     \* speak requests this call has sent to the daemon
    st_restarts,     \* ensure_daemon_running_async(force_restart=True) calls
    st_responses,    \* the status of each response this call received
    st_audio,        \* where the in-process path got its audio: None, "cache", "synth"
    st_outcome,      \* how the call ended, or None
    n_calls,         \* speak_text calls so far
    \* ---- one DaemonClient.send_request call (daemon/client.py) ----
    sr_pc,           \* where the call is
    sr_method,       \* the method requested
    sr_peer,         \* what is at the other end of the socket path
    sr_data,         \* the bytes read from the connection, NoData before
    sr_result,       \* the dict returned, NoResult before
    sr_raised,       \* the exception that left send_request, or None
    n_sends,         \* send_request calls so far
    \* ---- one caller of ensure_daemon_running[_async] (daemon/spawn.py) ----
    er_pc,           \* where the call is
    er_variant,      \* "async" or "sync"
    er_force,        \* force_restart
    er_polls,        \* iterations of the polling loop begun
    er_result,       \* "none", "true" or "false"
    er_before,       \* the daemon that would have answered a status request at the call
    er_answered,     \* who answered the probe the call returned on, or None
    er_unlinked,     \* the call has unlinked the socket file
    er_spawned,      \* the daemons the call has spawned
    n_ensure,        \* calls so far
    \* ---- connections whose request the daemon does not dispatch ----
    conn_log,        \* per such connection: what was sent, what was written, closed
    \* ---- the HTTP API ----
    expected_key,    \* LSPEAK_API_KEY in the daemon's environment, or None
    http_log,        \* per HTTP request: endpoint, X-API-Key, status code, body
    \* ---- SimilarityIndex over one cache directory ----
    sim_instance,    \* whether a SimilarityIndex object exists
    sim_embeddings,  \* self.embeddings: the rows of the array, in order
    sim_index,       \* self.index: the vectors of the IndexFlatL2, in order
    embeddings_npy,  \* the file embeddings.npy
    faiss_index,     \* the file faiss.index
    sim_positions,   \* the positions add has returned, over all instances
    sim_loads,       \* per instance constructed: the adds returned before it
    sim_raised,      \* the exception of the latest add, or None
    sq_call,         \* the latest search_multiple call: the index it ran on, its arguments
    sq_result,       \* what that call raised and returned
    \* ---- SemanticCacheManager objects of several processes on one directory ----
    mgr_pc,          \* per process: "none", "ready", or "added" inside cache_audio
    mgr_embeddings,  \* per process: index.embeddings of its manager
    mgr_index,       \* per process: index.index of its manager
    mgr_entry,       \* per process: the CacheEntry of the cache_audio in progress
    cache_rows,      \* the rows of the cache table of cache.db, in insertion order
    \* ---- TTSPipeline.process coroutines sharing one cache manager ----
    task             \* per coroutine: where it stands and what it did so far

daemon_vars == <<speech_queue, queue_items, current_item, item_params, worker_pc,
                 worker_raised, running, responses, enqueued, dequeued, started,
                 finished, outcomes, n_speak, n_status>>

cache_vars == <<threshold, embeddings, db, files, last_put, last_get,
                last_op, n_puts, n_gets, n_env>>

pipeline_vars == <<cache_manager, runs>>

lifecycle_vars == <<daemon_pc, lock_holder, sock_file, listening, models_loaded,
                    worker_task, http_task, sigterm, daemon_error, probe_result,
                    status_seen, http_enabled, cleanup_socket>>

client_vars == <<st_call, st_pc, st_requests, st_restarts, st_responses, st_audio,
                 st_outcome, n_calls>>

request_vars == <<sr_pc, sr_method, sr_peer, sr_data, sr_result, sr_raised, n_sends>>

\* the variables of the parts below the caller
ensure_vars == <<er_pc, er_variant, er_force, er_polls, er_result, er_before,
                 er_answered, er_unlinked, er_spawned, n_ensure>>

conn_vars == <<conn_log, expected_key, http_log>>

index_vars == <<sim_instance, sim_embeddings, sim_index, embeddings_npy, faiss_index,
                sim_positions, sim_loads, sim_raised, sq_call, sq_result,
                mgr_pc, mgr_embeddings, mgr_index, mgr_entry, cache_rows, task>>

ext_vars == <<request_vars, ensure_vars, conn_vars, index_vars>>

vars == <<daemon_vars, cache_vars, pipeline_vars, lifecycle_vars, client_vars, ext_vars>>

-----------------------------------------------------------------------------
(* Bounds of the model *)

MaxSpeak == 3        \* speak requests per run
MaxStatus == 1       \* queue_status requests per run
MaxPuts == 2         \* cache_audio calls per run
MaxGets == 1         \* get_cached_audio calls per run
MaxPreload == 10     \* records a cache directory may hold from earlier runs
MaxRuns == 2         \* TTSPipeline.process calls per run
MaxEnv == 1          \* out-of-band changes to the cache directory per run

None == "None"

-----------------------------------------------------------------------------
(* Python helpers *)

\* dict.get(key, default)
DictGet(d, key, default) == IF key \in DOMAIN d THEN d[key] ELSE default

\* list.remove(x) guarded by "if x in list": drops the first occurrence
RECURSIVE ListRemove(_, _)
ListRemove(s, x) ==
    IF s = <<>> THEN <<>>
    ELSE IF Head(s) = x THEN Tail(s)
    ELSE <<Head(s)>> \o ListRemove(Tail(s), x)

SeqToSet(s) == {s[i] : i \in 1..Len(s)}

IsPrefix(s, t) == Len(s) <= Len(t) /\ \A i \in 1..Len(s) : s[i] = t[i]

NoDuplicates(s) == \A i, j \in 1..Len(s) : i # j => s[i] # s[j]

-----------------------------------------------------------------------------
(* The daemon: handle_speak, handle_queue_status, process_queue *)

\* The speak parameters a client may send.  "queue" may be absent from the dict.
QTexts == {"hello", ""}
SpeakParams ==
    [text : QTexts] \cup [text : QTexts, queue : BOOLEAN]

\* QueueItem.id is a fresh uuid4 per item (server.py:171): the n-th item's id
NewId(n) == "id" \o ToString(n)

\* The keyword names _process_speech passes in its call of TTSPipeline.process
ProcessSpeechKwargs ==
    {"text", "provider", "voice", "output", "cache", "cache_threshold", "debug",
     "model"}

\* The parameters TTSPipeline.process declares (it has no **kwargs)
ProcessParameters ==
    {"text", "provider", "voice", "output", "cache", "cache_threshold", "debug"}

\* Python binds a keyword call only when every keyword names a parameter;
\* otherwise the call itself raises TypeError, before the coroutine exists.
CallBinds(kwargs, parameters) == kwargs \subseteq parameters

\* What a bound call of TTSPipeline.process can hand back to the daemon: a
\* terminal result, or the exception it lets through (pipeline.py:114-123,
\* 172-178).
PipelineResults ==
    [played : BOOLEAN, saved : {None, "out.mp3"}, cached : BOOLEAN]
PipelineErrors == {"ValueError", "KeyError", "TTSAuthError", "TTSAPIError"}

\* LspeakDaemon._process_speech: the possible return values.  Every exception
\* of the body, the TypeError of the call included, is caught and turned into
\* {"error": str(e)}; the method itself never raises.
_process_speech(params) ==
    IF ~CallBinds(ProcessSpeechKwargs, ProcessParameters)
    THEN {[error |-> "TypeError"]}
    ELSE PipelineResults \cup {[error |-> e] : e \in PipelineErrors}

\* mutant: _process_speech_async without its try/except, the error escaping
_process_speech_async_reraise(params) ==
    {[raised |-> "error" \in DOMAIN r, result |-> r] : r \in _process_speech(params)}

\* LspeakDaemon._process_speech_async: awaits _process_speech inside
\* try/except Exception; the possible outcomes as seen by the caller.
_process_speech_async(params) ==
    {[raised |-> FALSE, result |-> r] : r \in _process_speech(params)}

\* mutant: handle_speak that queues whatever the flag says
ShouldQueue_always(params) == TRUE

\* handle_speak: "queue = params.get('queue', True); if queue:"
ShouldQueue(params) == DictGet(params, "queue", TRUE) = TRUE

\* mutant: the position read before the append
queue_position_before(items) == Len(items) - 1

\* handle_speak: "queue_position": len(self.queue_items), read after the append
queue_position(items) == Len(items)

\* mutant: a LIFO queue
QueueGetItem_lifo(q) == q[Len(q)]

\* asyncio.Queue.get returns the oldest element (FIFO)
QueueGetItem(q) == Head(q)

\* handle_client: "status": "success" if "error" not in result else "error"
\* the "id" a client puts into its request
RequestId == "req"

ResponseStatus(result) == IF "error" \in DOMAIN result THEN "error" ELSE "success"

\* mutant: the waiting list is the whole tracking list
handle_queue_status_all == [queue_size |-> Len(queue_items), current |-> current_item, waiting |-> queue_items]

\* handle_queue_status
handle_queue_status ==
    [queue_size |-> Len(queue_items),
     current |-> current_item,
     waiting |-> SelectSeq(queue_items, LAMBDA i : i # current_item)]

\* mutant: the item is never taken off the tracking list
TrackingAfter_keep(items, item, raised) == items

\* process_queue, after the awaited call: the try body removes the item and
\* clears current; the except branch only clears current.
TrackingAfter(items, item, raised) ==
    IF raised THEN items ELSE ListRemove(items, item)

DaemonInit ==
    /\ speech_queue = <<>>
    /\ queue_items = <<>>
    /\ current_item = None
    /\ item_params = <<>>
    /\ worker_pc = "get"
    /\ worker_raised = FALSE
    /\ running = "loop"
    /\ responses = <<>>
    /\ enqueued = <<>>
    /\ dequeued = <<>>
    /\ started = <<>>
    /\ finished = <<>>
    /\ outcomes = <<>>
    /\ n_speak = 0
    /\ n_status = 0

\* handle_client -> handle_speak with queue true or absent: the put on the
\* unbounded asyncio.Queue does not suspend, so put, append and the building
\* of the result are one step of the event loop.
SpeakQueued ==
    /\ running = "loop"
    /\ n_speak < MaxSpeak
    /\ \E params \in SpeakParams :
         /\ ShouldQueue(params)
         /\ LET id == NewId(Len(enqueued) + 1)
                items == Append(queue_items, id)
                result == [queued |-> TRUE, queue_id |-> id,
                           queue_position |-> queue_position(items),
                           timestamp |-> n_speak + 1]
            IN /\ speech_queue' = Append(speech_queue, id)
               /\ queue_items' = items
               /\ item_params' = item_params @@ (id :> params)
               /\ enqueued' = Append(enqueued, id)
               /\ responses' = Append(responses,
                      [method |-> "speak", params |-> params, id |-> RequestId,
                       status |-> ResponseStatus(result), result |-> result])
    /\ n_speak' = n_speak + 1
    /\ UNCHANGED <<current_item, worker_pc, worker_raised, running, dequeued,
                   started, finished, outcomes, n_status>>
    /\ UNCHANGED cache_vars
    /\ UNCHANGED pipeline_vars
    /\ UNCHANGED lifecycle_vars
    /\ UNCHANGED client_vars
    /\ UNCHANGED ext_vars

\* handle_client -> handle_speak with a false queue flag: _process_speech
\* inline, the queue untouched.
SpeakImmediate ==
    /\ running = "loop"
    /\ n_speak < MaxSpeak
    /\ \E params \in SpeakParams :
         /\ ~ShouldQueue(params)
         /\ \E result \in _process_speech(params) :
              responses' = Append(responses,
                  [method |-> "speak", params |-> params, id |-> RequestId,
                   status |-> ResponseStatus(result), result |-> result])
    /\ n_speak' = n_speak + 1
    /\ UNCHANGED <<speech_queue, queue_items, current_item, item_params, worker_pc,
                   worker_raised, running, enqueued, dequeued, started, finished,
                   outcomes, n_status>>
    /\ UNCHANGED cache_vars
    /\ UNCHANGED pipeline_vars
    /\ UNCHANGED lifecycle_vars
    /\ UNCHANGED client_vars
    /\ UNCHANGED ext_vars

\* handle_client -> handle_queue_status
QueueStatus ==
    /\ running = "loop"
    /\ n_status < MaxStatus
    /\ LET result == handle_queue_status
       IN responses' = Append(responses,
              [method |-> "queue_status", params |-> <<>>, id |-> RequestId,
               status |-> ResponseStatus(result), result |-> result])
    /\ n_status' = n_status + 1
    /\ UNCHANGED <<speech_queue, queue_items, current_item, item_params, worker_pc,
                   worker_raised, running, enqueued, dequeued, started, finished,
                   outcomes, n_speak>>
    /\ UNCHANGED cache_vars
    /\ UNCHANGED pipeline_vars
    /\ UNCHANGED lifecycle_vars
    /\ UNCHANGED client_vars
    /\ UNCHANGED ext_vars

\* process_queue: "item = await self.speech_queue.get(); self.current_item = item"
WorkerGet ==
    /\ worker_pc = "get"
    /\ speech_queue # <<>>
    /\ LET item == QueueGetItem(speech_queue)
       IN /\ current_item' = item
          /\ speech_queue' = ListRemove(speech_queue, item)
          /\ dequeued' = Append(dequeued, item)
    /\ worker_pc' = "call"
    /\ running' = "worker"
    /\ UNCHANGED <<queue_items, item_params, worker_raised, responses, enqueued,
                   started, finished, outcomes, n_speak, n_status>>
    /\ UNCHANGED cache_vars
    /\ UNCHANGED pipeline_vars
    /\ UNCHANGED lifecycle_vars
    /\ UNCHANGED client_vars
    /\ UNCHANGED ext_vars

\* process_queue: the call of self._process_speech_async(item.params)
WorkerCall ==
    /\ worker_pc = "call"
    /\ started' = Append(started, current_item)
    /\ worker_pc' = "await"
    /\ UNCHANGED <<speech_queue, queue_items, current_item, item_params,
                   worker_raised, running, responses, enqueued, dequeued, finished,
                   outcomes, n_speak, n_status>>
    /\ UNCHANGED cache_vars
    /\ UNCHANGED pipeline_vars
    /\ UNCHANGED lifecycle_vars
    /\ UNCHANGED client_vars
    /\ UNCHANGED ext_vars

\* process_queue: the awaited call comes back, with a value or an exception
WorkerReturn ==
    /\ worker_pc = "await"
    /\ \E out \in _process_speech_async(item_params[current_item]) :
         /\ worker_raised' = out.raised
         /\ outcomes' = outcomes @@ (current_item :> out)
    /\ finished' = Append(finished, current_item)
    /\ worker_pc' = "finish"
    /\ UNCHANGED <<speech_queue, queue_items, current_item, item_params, running,
                   responses, enqueued, dequeued, started, n_speak, n_status>>
    /\ UNCHANGED cache_vars
    /\ UNCHANGED pipeline_vars
    /\ UNCHANGED lifecycle_vars
    /\ UNCHANGED client_vars
    /\ UNCHANGED ext_vars

\* process_queue: the rest of the try body, or the except branch; then the
\* loop is back at the get, which suspends only when the queue is empty.
WorkerFinish ==
    /\ worker_pc = "finish"
    /\ queue_items' = TrackingAfter(queue_items, current_item, worker_raised)
    /\ current_item' = None
    /\ worker_raised' = FALSE
    /\ worker_pc' = "get"
    /\ running' = IF speech_queue = <<>> THEN "loop" ELSE "worker"
    /\ UNCHANGED <<speech_queue, item_params, responses, enqueued, dequeued,
                   started, finished, outcomes, n_speak, n_status>>
    /\ UNCHANGED cache_vars
    /\ UNCHANGED pipeline_vars
    /\ UNCHANGED lifecycle_vars
    /\ UNCHANGED client_vars
    /\ UNCHANGED ext_vars

Worker == WorkerGet \/ WorkerCall \/ WorkerReturn \/ WorkerFinish

-----------------------------------------------------------------------------
(* Daemon processes: main() and LspeakDaemon.start *)

\* the daemon processes that may be spawned, all with the same runtime directory
Daemons == {"d1", "d2"}

\* what the socket path may hold before any of them starts: nothing, a file
\* nobody listens on, or the socket of a live listener outside the model
InitialSockets == {None, "stale", "other"}

\* the positions of a daemon process.  "lock": main() has created the start()
\* task; "models": lock held; "worker": models_loaded set; "probe": queue
\* processor created; "bind": socket path clear; "bound": start_unix_server
\* has returned; "serving": in serve_forever; "closed": the server closed by
\* the cancellation; "unlocked": start() left through its finally;
\* "stopped" / "failed": the process has exited.
StartingPcs == {"lock"}
PastStartingPcs == {"models", "worker", "probe", "bind", "bound", "serving", "closed"}
ExitedPcs == {"none", "stopped", "failed"}

\* a connect() to the socket path reaches a listener
ProbeConnects == 
    \/ sock_file = "other"
    \/ sock_file \in Daemons /\ listening[sock_file]

\* the variables of a specification without daemon processes
LifecycleIdle ==
    /\ daemon_pc = [d \in Daemons |-> "none"]
    /\ lock_holder = None
    /\ sock_file = None
    /\ listening = [d \in Daemons |-> FALSE]
    /\ models_loaded = [d \in Daemons |-> FALSE]
    /\ worker_task = [d \in Daemons |-> "none"]
    /\ http_task = [d \in Daemons |-> "none"]
    /\ sigterm = [d \in Daemons |-> FALSE]
    /\ daemon_error = [d \in Daemons |-> None]
    /\ probe_result = [d \in Daemons |-> "none"]
    /\ status_seen = {}
    /\ http_enabled = FALSE
    /\ cleanup_socket = FALSE

\* no process yet; the socket path, the HTTP setting and the asyncio of the
\* build are given
LifecycleInit ==
    /\ daemon_pc = [d \in Daemons |-> "none"]
    /\ lock_holder = None
    /\ sock_file \in InitialSockets
    /\ listening = [d \in Daemons |-> FALSE]
    /\ models_loaded = [d \in Daemons |-> FALSE]
    /\ worker_task = [d \in Daemons |-> "none"]
    /\ http_task = [d \in Daemons |-> "none"]
    /\ sigterm = [d \in Daemons |-> FALSE]
    /\ daemon_error = [d \in Daemons |-> None]
    /\ probe_result = [d \in Daemons |-> "none"]
    /\ status_seen = {}
    /\ http_enabled \in BOOLEAN
    /\ cleanup_socket \in BOOLEAN

\* python -m lspeak.daemon: main() creates the start() task and installs the
\* SIGTERM handler
SpawnDaemon(d) ==
    /\ daemon_pc[d] = "none"
    /\ daemon_pc' = [daemon_pc EXCEPT ![d] = "lock"]
    /\ UNCHANGED <<lock_holder, sock_file, listening, models_loaded, worker_task,
                   http_task, sigterm, daemon_error, probe_result, status_seen,
                   http_enabled, cleanup_socket>>
    /\ UNCHANGED <<daemon_vars, cache_vars, pipeline_vars, client_vars>>
    /\ UNCHANGED ext_vars

\* mutant: start() goes from the lock straight to the socket
StageAfterLock_socket == "probe"

\* start(): what follows the lock is the loading of the models
StageAfterLock == "models"

\* mutant: a lock that is always granted
LockFree_always(holder) == TRUE

\* fcntl.flock(fd, LOCK_EX | LOCK_NB) succeeds when nobody holds the lock
LockFree(holder) == holder = None

\* start(): the exclusive non-blocking lock; BlockingIOError becomes
\* RuntimeError, which leaves start() and ends the process (sys.exit(1))
AcquireLock(d) ==
    /\ daemon_pc[d] = "lock"
    /\ IF LockFree(lock_holder)
       THEN /\ lock_holder' = d
            /\ daemon_pc' = [daemon_pc EXCEPT ![d] = StageAfterLock]
            /\ UNCHANGED daemon_error
       ELSE /\ daemon_error' = [daemon_error EXCEPT ![d] = "another daemon is already running"]
            /\ daemon_pc' = [daemon_pc EXCEPT ![d] = "failed"]
            /\ UNCHANGED lock_holder
    /\ UNCHANGED <<sock_file, listening, models_loaded, worker_task, http_task,
                   sigterm, probe_result, status_seen, http_enabled, cleanup_socket>>
    /\ UNCHANGED <<daemon_vars, cache_vars, pipeline_vars, client_vars>>
    /\ UNCHANGED ext_vars

\* start(): SemanticCacheManager(), warm-up, AudioPlayer(), models_loaded = True;
\* an exception of the constructors leaves start(), which closes the lock fd
LoadModels(d) ==
    /\ daemon_pc[d] = "models"
    /\ \/ /\ models_loaded' = [models_loaded EXCEPT ![d] = TRUE]
          /\ daemon_pc' = [daemon_pc EXCEPT ![d] = "worker"]
          /\ UNCHANGED <<lock_holder, daemon_error>>
       \/ /\ daemon_error' = [daemon_error EXCEPT ![d] = "model loading failed"]
          /\ lock_holder' = None
          /\ daemon_pc' = [daemon_pc EXCEPT ![d] = "failed"]
          /\ UNCHANGED models_loaded
    /\ UNCHANGED <<sock_file, listening, worker_task, http_task, sigterm,
                   probe_result, status_seen, http_enabled, cleanup_socket>>
    /\ UNCHANGED <<daemon_vars, cache_vars, pipeline_vars, client_vars>>
    /\ UNCHANGED ext_vars

\* start(): asyncio.create_task(self.process_queue())
StartWorker(d) ==
    /\ daemon_pc[d] = "worker"
    /\ worker_task' = [worker_task EXCEPT ![d] = "running"]
    /\ daemon_pc' = [daemon_pc EXCEPT ![d] = "probe"]
    /\ UNCHANGED <<lock_holder, sock_file, listening, models_loaded, http_task,
                   sigterm, daemon_error, probe_result, status_seen, http_enabled,
                   cleanup_socket>>
    /\ UNCHANGED <<daemon_vars, cache_vars, pipeline_vars, client_vars>>
    /\ UNCHANGED ext_vars

\* mutant: the socket file is unlinked whatever the probe found
ProbeSaysStale_always(exists, connects) == exists

\* start(): the file exists and the connect to it failed
ProbeSaysStale(exists, connects) == exists /\ ~connects

\* start(): "if self.socket_path.exists()": connect; a listener answers ->
\* RuntimeError (start() closes the lock fd, the process exits and its queue
\* processor with it); nobody answers -> unlink
ProbeSocket(d) ==
    /\ daemon_pc[d] = "probe"
    /\ IF sock_file = None
       THEN /\ probe_result' = [probe_result EXCEPT ![d] = "absent"]
            /\ daemon_pc' = [daemon_pc EXCEPT ![d] = "bind"]
            /\ UNCHANGED <<sock_file, lock_holder, daemon_error, worker_task>>
       ELSE IF ProbeSaysStale(sock_file # None, ProbeConnects)
       THEN /\ probe_result' = [probe_result EXCEPT ![d] = "dead"]
            /\ sock_file' = None
            /\ daemon_pc' = [daemon_pc EXCEPT ![d] = "bind"]
            /\ UNCHANGED <<lock_holder, daemon_error, worker_task>>
       ELSE /\ probe_result' = [probe_result EXCEPT ![d] = "live"]
            /\ daemon_error' = [daemon_error EXCEPT ![d] = "socket is already in use"]
            /\ lock_holder' = None
            /\ worker_task' = [worker_task EXCEPT ![d] = "cancelled"]
            /\ daemon_pc' = [daemon_pc EXCEPT ![d] = "failed"]
            /\ UNCHANGED sock_file
    /\ UNCHANGED <<listening, models_loaded, http_task, sigterm, status_seen,
                   http_enabled, cleanup_socket>>
    /\ UNCHANGED <<daemon_vars, cache_vars, pipeline_vars, client_vars>>
    /\ UNCHANGED ext_vars

\* start(): await asyncio.start_unix_server(...): the socket is bound and
\* listening when the coroutine suspends
BindSocket(d) ==
    /\ daemon_pc[d] = "bind"
    /\ sock_file' = d
    /\ listening' = [listening EXCEPT ![d] = TRUE]
    /\ daemon_pc' = [daemon_pc EXCEPT ![d] = "bound"]
    /\ UNCHANGED <<lock_holder, models_loaded, worker_task, http_task, sigterm,
                   daemon_error, probe_result, status_seen, http_enabled,
                   cleanup_socket>>
    /\ UNCHANGED <<daemon_vars, cache_vars, pipeline_vars, client_vars>>
    /\ UNCHANGED ext_vars

\* start(): the HTTP server task if configured, then "async with server:
\* await server.serve_forever()"
ServeForever(d) ==
    /\ daemon_pc[d] = "bound"
    /\ http_task' = [http_task EXCEPT ![d] = IF http_enabled THEN "running" ELSE "none"]
    /\ daemon_pc' = [daemon_pc EXCEPT ![d] = "serving"]
    /\ UNCHANGED <<lock_holder, sock_file, listening, models_loaded, worker_task,
                   sigterm, daemon_error, probe_result, status_seen, http_enabled,
                   cleanup_socket>>
    /\ UNCHANGED <<daemon_vars, cache_vars, pipeline_vars, client_vars>>
    /\ UNCHANGED ext_vars

\* handle_client: a status request over the socket file
StatusRequest(d) ==
    /\ sock_file = d
    /\ listening[d]
    /\ status_seen' = status_seen \cup {models_loaded[d]}
    /\ UNCHANGED <<daemon_pc, lock_holder, sock_file, listening, models_loaded,
                   worker_task, http_task, sigterm, daemon_error, probe_result,
                   http_enabled, cleanup_socket>>
    /\ UNCHANGED <<daemon_vars, cache_vars, pipeline_vars, client_vars>>
    /\ UNCHANGED ext_vars

\* SIGTERM sent to a live daemon process; handle_sigterm runs in the event
\* loop and cancels the start() task
Sigterm(d) ==
    /\ daemon_pc[d] \notin ExitedPcs
    /\ ~sigterm[d]
    /\ sigterm' = [sigterm EXCEPT ![d] = TRUE]
    /\ UNCHANGED <<daemon_pc, lock_holder, sock_file, listening, models_loaded,
                   worker_task, http_task, daemon_error, probe_result, status_seen,
                   http_enabled, cleanup_socket>>
    /\ UNCHANGED <<daemon_vars, cache_vars, pipeline_vars, client_vars>>
    /\ UNCHANGED ext_vars

\* CancelledError in start().  The handler of a signal that arrived during
\* the synchronous part of start() runs after the step that enters
\* serve_forever, so the cancellation is always seen there: "async with
\* server" closes the server on the way out, and asyncio removes the socket
\* file in builds where closing a Unix server does that.
Cancelled(d) ==
    /\ sigterm[d]
    /\ daemon_pc[d] = "serving"
    /\ listening' = [listening EXCEPT ![d] = FALSE]
    /\ sock_file' = IF cleanup_socket /\ sock_file = d THEN None ELSE sock_file
    /\ daemon_pc' = [daemon_pc EXCEPT ![d] = "closed"]
    /\ UNCHANGED <<lock_holder, models_loaded, worker_task, http_task, sigterm,
                   daemon_error, probe_result, status_seen, http_enabled,
                   cleanup_socket>>
    /\ UNCHANGED <<daemon_vars, cache_vars, pipeline_vars, client_vars>>
    /\ UNCHANGED ext_vars

\* start(): "finally: os.close(self.lock_fd)"
ReleaseLock(d) ==
    /\ daemon_pc[d] = "closed"
    /\ lock_holder' = IF lock_holder = d THEN None ELSE lock_holder
    /\ daemon_pc' = [daemon_pc EXCEPT ![d] = "unlocked"]
    /\ UNCHANGED <<sock_file, listening, models_loaded, worker_task, http_task,
                   sigterm, daemon_error, probe_result, status_seen, http_enabled,
                   cleanup_socket>>
    /\ UNCHANGED <<daemon_vars, cache_vars, pipeline_vars, client_vars>>
    /\ UNCHANGED ext_vars

\* main() returns on CancelledError; asyncio.run cancels the tasks that are
\* left and the process exits
ExitDaemon(d) ==
    /\ daemon_pc[d] = "unlocked"
    /\ worker_task' = [worker_task EXCEPT ![d] =
                          IF @ = "running" THEN "cancelled" ELSE @]
    /\ http_task' = [http_task EXCEPT ![d] =
                          IF @ = "running" THEN "cancelled" ELSE @]
    /\ daemon_pc' = [daemon_pc EXCEPT ![d] = "stopped"]
    /\ UNCHANGED <<lock_holder, sock_file, listening, models_loaded, sigterm,
                   daemon_error, probe_result, status_seen, http_enabled,
                   cleanup_socket>>
    /\ UNCHANGED <<daemon_vars, cache_vars, pipeline_vars, client_vars>>
    /\ UNCHANGED ext_vars

\* the listener outside the model goes away and leaves its socket file behind
OtherExits ==
    /\ sock_file = "other"
    /\ sock_file' = "stale"
    /\ UNCHANGED <<daemon_pc, lock_holder, listening, models_loaded, worker_task,
                   http_task, sigterm, daemon_error, probe_result, status_seen,
                   http_enabled, cleanup_socket>>
    /\ UNCHANGED <<daemon_vars, cache_vars, pipeline_vars, client_vars>>
    /\ UNCHANGED ext_vars

DaemonStep(d) ==
    \/ AcquireLock(d)
    \/ LoadModels(d)
    \/ StartWorker(d)
    \/ ProbeSocket(d)
    \/ BindSocket(d)
    \/ ServeForever(d)
    \/ Cancelled(d)
    \/ ReleaseLock(d)
    \/ ExitDaemon(d)

\* no speak_text call yet
NoCall == [use_daemon |-> FALSE, queue |-> FALSE, provider |-> None, cache |-> FALSE]

ClientIdle ==
    /\ st_call = NoCall
    /\ st_pc = "idle"
    /\ st_requests = 0
    /\ st_restarts = 0
    /\ st_responses = <<>>
    /\ st_audio = None
    /\ st_outcome = None
    /\ n_calls = 0

-----------------------------------------------------------------------------
(* SimilarityIndex: the vector array, the FAISS index and their two files *)

EMBEDDING_DIM == 768

MaxAdds == 4         \* adds that return a position, per run
MaxInstances == 3    \* SimilarityIndex objects constructed over the directory

\* The arrays a caller may hand to add: unit vectors of the model's dimension
\* in either float width, and one array of another shape.
AddInputs ==
    [value : {"e_deploy", "e_deployment", "e_other"}, dtype : {"float32", "float64"},
     dim : {EMBEDDING_DIM}]
    \cup [value : {"e_deploy"}, dtype : {"float32"}, dim : {3}]

\* a file of the cache directory: whether it exists, whether its reader
\* accepts it, and the rows it holds
NoFile == [exists |-> FALSE, readable |-> FALSE, rows |-> <<>>]

\* embedding.astype(np.float32)
astype_float32(embedding) == [embedding EXCEPT !.dtype = "float32"]

\* mutant: a load that never reads the array file
_load_embeddings_empty(file) == <<>>

\* SimilarityIndex._load_embeddings: the array of the file, or an empty array
\* when the file is absent or np.load raises
_load_embeddings(file) == IF file.exists /\ file.readable THEN file.rows ELSE <<>>

\* SimilarityIndex._load_or_create_index: the index of the file, or a new
\* IndexFlatL2 when the file is absent or faiss.read_index raises
_load_or_create_index(file) == IF file.exists /\ file.readable THEN file.rows ELSE <<>>

\* SimilarityIndex._sync_index_with_embeddings: reset and re-add, only when
\* the array is not empty
_sync_index_with_embeddings(index, embs) == IF Len(embs) > 0 THEN embs ELSE index

\* SimilarityIndex._save_embeddings: np.save of the whole array
_save_embeddings(embs) == [exists |-> TRUE, readable |-> TRUE, rows |-> embs]

\* SimilarityIndex._save_index: faiss.write_index of the whole index
_save_index(index) == [exists |-> TRUE, readable |-> TRUE, rows |-> index]

\* no search_multiple call yet
NoSearch == [index |-> <<>>, query |-> None, threshold |-> 0, k |-> 0, tie |-> None]
NoSearchResult == [raised |-> None, results |-> <<>>]

\* The processes holding a SemanticCacheManager on the cache directory: the
\* daemon (server.py:586) and a caller running speak_text in process
\* (core.py:176).
Managers == {"daemon", "caller"}

\* no cache_audio in progress
NoEntry == [text |-> None, embedding_idx |-> 0]

\* The coroutines of TTSPipeline.process that the handlers of one daemon have
\* started, each on a TTSPipeline built around self.cache_manager
Tasks == {"t1", "t2"}

\* a coroutine not yet started
NoTask == [pc |-> "new", text |-> None, provider |-> None, voice |-> None, lookup |-> "none", synthesized |-> None, put_calls |-> 0, put_raised |-> FALSE, raised |-> None]

\* no manager constructed, an empty table
ManagersIdle ==
    /\ task = [t \in Tasks |-> NoTask]
    /\ mgr_pc = [m \in Managers |-> "none"]
    /\ mgr_embeddings = [m \in Managers |-> <<>>]
    /\ mgr_index = [m \in Managers |-> <<>>]
    /\ mgr_entry = [m \in Managers |-> NoEntry]
    /\ cache_rows = <<>>

manager_vars == <<mgr_pc, mgr_embeddings, mgr_index, mgr_entry, cache_rows, task>>

\* an empty cache directory and no SimilarityIndex object
IndexIdle ==
    /\ sim_instance = FALSE
    /\ sim_embeddings = <<>>
    /\ sim_index = <<>>
    /\ embeddings_npy = NoFile
    /\ faiss_index = NoFile
    /\ sim_positions = <<>>
    /\ sim_loads = <<>>
    /\ sim_raised = None
    /\ sq_call = NoSearch
    /\ sq_result = NoSearchResult
    /\ ManagersIdle

-----------------------------------------------------------------------------
(* The HTTP API: verify_api_key and the three routes *)

MaxHttp == 3         \* HTTP requests per run

\* LSPEAK_API_KEY: unset, set to the empty string, or set to a key
ConfiguredKeys == {None, "", "test-secret-key-123"}

\* the X-API-Key header of a request: absent, empty, the key, another key
ApiKeyHeaders == {None, "", "test-secret-key-123", "stolen"}

\* Python truth of an optional string
Truthy(x) == x # None /\ x # ""

\* mutant: any key is accepted
verify_api_key_any(expected, api_key) == IF ~Truthy(expected) \/ Truthy(api_key) THEN None ELSE "Missing API key. Please provide X-API-Key header"

\* verify_api_key: None when the request is let through, else the message of
\* the AuthenticationError raised
verify_api_key(expected, api_key) ==
    IF ~Truthy(expected) THEN None
    ELSE IF ~Truthy(api_key) THEN "Missing API key. Please provide X-API-Key header"
    ELSE IF api_key # expected THEN "Invalid API key"
    ELSE None

\* api_error_handler: the envelope of an APIError
api_error_handler(status_code, message) ==
    [status |-> status_code, success |-> FALSE, message |-> message, data |-> <<>>, null |-> TRUE]

\* APIResponse(success=True, ...) returned by a route
APIResponse(message, data) ==
    [status |-> 200, success |-> TRUE, message |-> message, data |-> data, null |-> FALSE]

\* SpeakRequest.model_dump(): "queue" is always present
HttpSpeakParams == [text : QTexts, queue : BOOLEAN]

\* no HTTP request yet, no key configured
HttpIdle ==
    /\ expected_key = None
    /\ http_log = <<>>

\* no send_request call yet
NoResult == [status |-> "none"]
NoData == [kind |-> "none"]

RequestIdle ==
    /\ sr_pc = "idle"
    /\ sr_method = None
    /\ sr_peer = None
    /\ sr_data = NoData
    /\ sr_result = NoResult
    /\ sr_raised = None
    /\ n_sends = 0

\* no ensure_daemon_running call yet
EnsureIdle ==
    /\ er_pc = "idle"
    /\ er_variant = None
    /\ er_force = FALSE
    /\ er_polls = 0
    /\ er_result = "none"
    /\ er_before = None
    /\ er_answered = None
    /\ er_unlinked = FALSE
    /\ er_spawned = {}
    /\ n_ensure = 0

ExtIdle == RequestIdle /\ EnsureIdle /\ conn_log = <<>> /\ IndexIdle /\ HttpIdle

-----------------------------------------------------------------------------
(* The semantic cache: SimilarityIndex, CacheStorage, SemanticCacheManager *)

\* The inputs of the cache calls.  "Deploy complete" and "deploy complete"
\* are two texts the embedding model maps to one vector; "deployment
\* complete" is a similar text.
Texts == {"deploy complete", "Deploy complete", "deployment complete"}
Providers == {"elevenlabs", "system"}
Voices == {"Rachel", "Adam"}
Audio == {"AUDIO1", "AUDIO2"}
Thresholds == {850, 950}

\* EmbeddingGenerator.generate: text -> unit vector (a collaborator; the
\* vectors are named, not computed)
Embed(text) ==
    CASE text = "deploy complete" -> "e_deploy"
      [] text = "Deploy complete" -> "e_deploy"
      [] text = "deployment complete" -> "e_deployment"
      [] OTHER -> "e_other"

\* IndexFlatL2: squared Euclidean distance of two unit vectors, in thousandths
L2Distance(a, b) ==
    IF a = b THEN 0
    ELSE IF {a, b} = {"e_deploy", "e_deployment"} THEN 200
    ELSE 1400

\* search_multiple: "similarity = 1.0 - (distance / 2.0)"
Similarity(distance) == 1000 - distance \div 2

\* search_multiple: max_results=10 in the call of get_cached_audio
max_results == 10

\* How FAISS orders equal distances is not fixed by the code: "old" puts the
\* lower position first, "new" the higher one.
TieOrders == {"old", "new"}

\* mutant: the results come in position order
Before_by_position(embs, query, tie, i, j) == i < j

\* whether position i (0-based) comes before position j in the FAISS result
\* for `query` over the vectors `embs`
Before(embs, query, tie, i, j) ==
    LET di == L2Distance(query, embs[i + 1])
        dj == L2Distance(query, embs[j + 1])
    IN \/ di < dj
       \/ di = dj /\ (IF tie = "old" THEN i < j ELSE i > j)

\* index.search(query, search_k): the search_k nearest positions, nearest first
RECURSIVE NearestFirst(_, _, _, _, _)
NearestFirst(embs, query, tie, left, k) ==
    IF k = 0 \/ left = {} THEN <<>>
    ELSE LET best == CHOOSE i \in left :
                         \A j \in left \ {i} : Before(embs, query, tie, i, j)
         IN <<best>> \o NearestFirst(embs, query, tie, left \ {best}, k - 1)

\* the loop of search_multiple: keep while similarity >= threshold, stop at
\* the first result below it
RECURSIVE TakeAbove(_, _, _, _)
TakeAbove(embs, query, thr, found) ==
    IF found = <<>> THEN <<>>
    ELSE LET sim == Similarity(L2Distance(query, embs[Head(found) + 1]))
         IN IF sim >= thr
            THEN <<<<Head(found), sim>>>> \o TakeAbove(embs, query, thr, Tail(found))
            ELSE <<>>

\* mutant: a result whose similarity equals the threshold is dropped
search_multiple_strict(embs, query, thr, k, tie) == IF Len(embs) = 0 THEN <<>> ELSE TakeAbove(embs, query, thr + 1, NearestFirst(embs, query, tie, 0..(Len(embs) - 1), IF k < Len(embs) THEN k ELSE Len(embs)))

\* SimilarityIndex.search_multiple: [(position, similarity)], best first
search_multiple(embs, query, thr, k, tie) ==
    IF Len(embs) = 0 THEN <<>>
    ELSE LET search_k == IF k < Len(embs) THEN k ELSE Len(embs)
         IN TakeAbove(embs, query, thr,
                NearestFirst(embs, query, tie, 0..(Len(embs) - 1), search_k))

\* SimilarityIndex.add: the new position is len(self.embeddings)
index_add_position(embs) == Len(embs)

\* CacheStorage.get_by_embedding_idx: the first row with that embedding_idx,
\* as a sequence of at most one row
get_by_embedding_idx(rows, idx) ==
    LET hits == SelectSeq(rows, LAMBDA r : r.embedding_idx = idx)
    IN IF hits = <<>> THEN <<>> ELSE <<Head(hits)>>

\* the UNIQUE(text, provider, voice) constraint of the cache table
ViolatesUnique(rows, entry) ==
    \E i \in 1..Len(rows) :
        /\ rows[i].text = entry.text
        /\ rows[i].provider = entry.provider
        /\ rows[i].voice = entry.voice

\* mutant: a table without the unique constraint
storage_save_no_constraint(rows, entry) ==
    [rows |-> Append(rows, entry), raised |-> FALSE, error |-> None]

\* CacheStorage.save: INSERT; sqlite3.IntegrityError on a duplicate key
storage_save(rows, entry) ==
    IF ViolatesUnique(rows, entry)
    THEN [rows |-> rows, raised |-> TRUE, error |-> "IntegrityError"]
    ELSE [rows |-> Append(rows, entry), raised |-> FALSE, error |-> None]

\* SemanticCacheManager._generate_audio_hash and the file name built from it.
\* The input string "{text}:{provider}:{voice}" is kept whole: the truncated
\* SHA-256 is taken to be free of collisions on the strings of the model.
AudioPath(text, provider, voice) ==
    "audio/" \o text \o ":" \o provider \o ":" \o voice \o ".mp3"

\* Path.write_bytes / Path.unlink / Path.exists on the audio directory
WriteBytes(fs, path, bytes) ==
    [q \in DOMAIN fs \cup {path} |-> IF q = path THEN bytes ELSE fs[q]]
Unlink(fs, path) == [q \in DOMAIN fs \ {path} |-> fs[q]]
Exists(fs, path) == path \in DOMAIN fs

\* the parts of a cache directory and its manager
CacheOf(embs, rows, fs) == [embeddings |-> embs, db |-> rows, files |-> fs]
EmptyCache == CacheOf(<<>>, <<>>, <<>>)

\* mutant: cache_audio without the clean-up of its except clause
cache_audio_no_cleanup(c, text, provider, voice, audio_bytes) ==
    LET audio_path == AudioPath(text, provider, voice)
        fs1 == WriteBytes(c.files, audio_path, audio_bytes)
        embs1 == Append(c.embeddings, Embed(text))
        entry == [text |-> text, provider |-> provider, voice |-> voice,
                  audio_path |-> audio_path,
                  embedding_idx |-> index_add_position(c.embeddings)]
        saved == storage_save(c.db, entry)
    IN [cache |-> CacheOf(embs1, saved.rows, fs1),
        raised |-> saved.raised,
        error |-> IF saved.raised THEN "RuntimeError" ELSE None,
        cause |-> saved.error]

\* SemanticCacheManager.cache_audio: the cache afterwards and whether the
\* call raised.  The blob is written first, the vector appended next, the
\* row saved last; when the save raises, the blob at audio_path is unlinked
\* and RuntimeError raised from the cause.  The vector stays.
cache_audio(c, text, provider, voice, audio_bytes) ==
    LET audio_path == AudioPath(text, provider, voice)
        fs1 == WriteBytes(c.files, audio_path, audio_bytes)
        embedding_idx == index_add_position(c.embeddings)
        embs1 == Append(c.embeddings, Embed(text))
        entry == [text |-> text, provider |-> provider, voice |-> voice,
                  audio_path |-> audio_path, embedding_idx |-> embedding_idx]
        saved == storage_save(c.db, entry)
    IN IF saved.raised
       THEN [cache |-> CacheOf(embs1, saved.rows,
                               IF Exists(fs1, audio_path)
                               THEN Unlink(fs1, audio_path) ELSE fs1),
             raised |-> TRUE, error |-> "RuntimeError", cause |-> saved.error]
       ELSE [cache |-> CacheOf(embs1, saved.rows, fs1),
             raised |-> FALSE, error |-> None, cause |-> None]

\* The stages of get_cached_audio at which an exception can be injected
GetFaults == {"none", "embed", "search", "storage", "exists"}

\* mutant: provider and voice are not compared
EntryMatches_any(entry, provider, voice) == TRUE

\* get_cached_audio: "entry.provider == provider and entry.voice == voice"
EntryMatches(entry, provider, voice) ==
    entry.provider = provider /\ entry.voice = voice

\* The candidate loop of get_cached_audio: what the body does from candidate
\* n on: return a path, return None, or raise.
RECURSIVE ScanCandidates(_, _, _, _, _, _)
ScanCandidates(c, candidates, n, provider, voice, fault) ==
    IF n > Len(candidates) THEN [kind |-> "return", value |-> None]
    ELSE IF fault = "storage" THEN [kind |-> "raise", value |-> "storage"]
    ELSE LET found == get_by_embedding_idx(c.db, candidates[n][1])
         IN IF found = <<>>
            THEN ScanCandidates(c, candidates, n + 1, provider, voice, fault)
            ELSE IF EntryMatches(found[1], provider, voice)
                 THEN IF fault = "exists"
                      THEN [kind |-> "raise", value |-> "exists"]
                      ELSE IF ~Exists(c.files, found[1].audio_path)
                           THEN ScanCandidates(c, candidates, n + 1, provider,
                                               voice, fault)
                           ELSE [kind |-> "return",
                                 value |-> found[1].audio_path]
                 ELSE ScanCandidates(c, candidates, n + 1, provider, voice, fault)

\* The try body of get_cached_audio
GetBody(c, thr, text, provider, voice, tie, fault) ==
    IF fault = "embed" THEN [kind |-> "raise", value |-> "embed"]
    ELSE IF fault = "search" THEN [kind |-> "raise", value |-> "search"]
    ELSE LET candidates ==
                 search_multiple(c.embeddings, Embed(text), thr, max_results, tie)
         IN IF candidates = <<>>
            THEN [kind |-> "return", value |-> None]
            ELSE ScanCandidates(c, candidates, 1, provider, voice, fault)

\* mutant: get_cached_audio without its try/except
get_cached_audio_nocatch(c, thr, text, provider, voice, tie, fault) ==
    LET body == GetBody(c, thr, text, provider, voice, tie, fault)
    IN IF body.kind = "raise"
       THEN [result |-> None, raised |-> TRUE, caught |-> FALSE]
       ELSE [result |-> body.value, raised |-> FALSE, caught |-> FALSE]

\* SemanticCacheManager.get_cached_audio: "except Exception: return None"
get_cached_audio(c, thr, text, provider, voice, tie, fault) ==
    LET body == GetBody(c, thr, text, provider, voice, tie, fault)
    IN IF body.kind = "raise"
       THEN [result |-> None, raised |-> FALSE, caught |-> TRUE]
       ELSE [result |-> body.value, raised |-> FALSE, caught |-> FALSE]

\* the pipeline variables of a specification that does not use the pipeline
PipelineIdle ==
    /\ cache_manager = None
    /\ runs = <<>>

\* What earlier runs may have left in the cache directory: n successful
\* cache_audio calls for one text under n voices of their own.
PreloadVoice(i) == "voice" \o ToString(i)
RECURSIVE Preloaded(_)
Preloaded(n) ==
    IF n = 0 THEN EmptyCache
    ELSE cache_audio(Preloaded(n - 1), "deploy complete", "elevenlabs",
                     PreloadVoice(n), "AUDIO0").cache
PreloadCounts == {0, MaxPreload}

NoPut == [text |-> None, provider |-> None, voice |-> None, audio |-> None,
          raised |-> FALSE, error |-> None, cause |-> None]
NoGet == [text |-> None, provider |-> None, voice |-> None, result |-> None,
          raised |-> FALSE, caught |-> FALSE, fault |-> "none",
          after_put |-> FALSE]

CurrentCache == CacheOf(embeddings, db, files)

\* the cache variables of a specification that does not use the cache
CacheIdle ==
    /\ threshold = 950
    /\ embeddings = <<>>
    /\ db = <<>>
    /\ files = <<>>
    /\ last_put = NoPut
    /\ last_get = NoGet
    /\ last_op = "none"
    /\ n_puts = 0
    /\ n_gets = 0
    /\ n_env = 0

\* SemanticCacheManager.__init__ over a cache directory
CacheInit ==
    /\ threshold \in Thresholds
    /\ \E n \in PreloadCounts :
         /\ embeddings = Preloaded(n).embeddings
         /\ db = Preloaded(n).db
         /\ files = Preloaded(n).files
    /\ last_put = NoPut
    /\ last_get = NoGet
    /\ last_op = "none"
    /\ n_puts = 0
    /\ n_gets = 0
    /\ n_env = 0

\* a call of cache_audio
Put ==
    /\ n_puts < MaxPuts
    /\ \E text \in Texts, provider \in Providers, voice \in Voices, audio \in Audio :
         \E out \in {cache_audio(CurrentCache, text, provider, voice, audio)} :
            /\ embeddings' = out.cache.embeddings
            /\ db' = out.cache.db
            /\ files' = out.cache.files
            /\ last_put' = [text |-> text, provider |-> provider, voice |-> voice,
                            audio |-> audio, raised |-> out.raised,
                            error |-> out.error, cause |-> out.cause]
    /\ n_puts' = n_puts + 1
    /\ last_op' = "put"
    /\ UNCHANGED <<threshold, last_get, n_gets, n_env>>
    /\ UNCHANGED daemon_vars
    /\ UNCHANGED pipeline_vars
    /\ UNCHANGED lifecycle_vars
    /\ UNCHANGED client_vars
    /\ UNCHANGED ext_vars

\* a call of get_cached_audio
Get ==
    /\ n_gets < MaxGets
    /\ \E text \in Texts, provider \in Providers, voice \in Voices,
          tie \in TieOrders, fault \in GetFaults :
         \E out \in {get_cached_audio(CurrentCache, threshold, text, provider,
                                        voice, tie, fault)} :
            last_get' = [text |-> text, provider |-> provider, voice |-> voice,
                         result |-> out.result, raised |-> out.raised,
                         caught |-> out.caught, fault |-> fault,
                         after_put |-> (last_op = "put")]
    /\ n_gets' = n_gets + 1
    /\ last_op' = "get"
    /\ UNCHANGED <<threshold, embeddings, db, files, last_put, n_puts, n_env>>
    /\ UNCHANGED daemon_vars
    /\ UNCHANGED pipeline_vars
    /\ UNCHANGED lifecycle_vars
    /\ UNCHANGED client_vars
    /\ UNCHANGED ext_vars

InitCache == DaemonInit /\ CacheInit /\ PipelineIdle /\ LifecycleIdle /\ ClientIdle /\ ExtIdle

NextCache ==
    \/ Put
    \/ Get

SpecCache == InitCache /\ [][NextCache]_vars

-----------------------------------------------------------------------------
(* The cache directory changed from outside the manager *)

\* a sequence without its i-th element
RemoveAt(seq, i) == SubSeq(seq, 1, i - 1) \o SubSeq(seq, i + 1, Len(seq))

\* A row of cache.db is deleted from outside; its vector stays in the index
\* (the "Index/storage mismatch" get_cached_audio logs and skips).
DeleteRecord ==
    /\ n_env < MaxEnv
    /\ \E i \in 1..Len(db) : db' = RemoveAt(db, i)
    /\ n_env' = n_env + 1
    /\ last_op' = "env"
    /\ UNCHANGED <<threshold, embeddings, files, last_put, last_get, n_puts, n_gets>>
    /\ UNCHANGED daemon_vars
    /\ UNCHANGED pipeline_vars
    /\ UNCHANGED lifecycle_vars
    /\ UNCHANGED client_vars
    /\ UNCHANGED ext_vars

\* An audio file of the cache is unlinked from outside; its row stays
\* (the "Cache corruption" get_cached_audio logs and skips).
UnlinkAudio ==
    /\ n_env < MaxEnv
    /\ \E path \in DOMAIN files : files' = Unlink(files, path)
    /\ n_env' = n_env + 1
    /\ last_op' = "env"
    /\ UNCHANGED <<threshold, embeddings, db, last_put, last_get, n_puts, n_gets>>
    /\ UNCHANGED daemon_vars
    /\ UNCHANGED pipeline_vars
    /\ UNCHANGED lifecycle_vars
    /\ UNCHANGED client_vars
    /\ UNCHANGED ext_vars

\* a manager over an empty cache directory
DesyncInit ==
    /\ threshold \in Thresholds
    /\ embeddings = <<>>
    /\ db = <<>>
    /\ files = <<>>
    /\ last_put = NoPut
    /\ last_get = NoGet
    /\ last_op = "none"
    /\ n_puts = 0
    /\ n_gets = 0
    /\ n_env = 0

InitDesync == DaemonInit /\ DesyncInit /\ PipelineIdle /\ LifecycleIdle /\ ClientIdle /\ ExtIdle

NextDesync ==
    \/ Put
    \/ Get
    \/ DeleteRecord
    \/ UnlinkAudio

SpecDesync == InitDesync /\ [][NextDesync]_vars

-----------------------------------------------------------------------------
(* The pipeline: TTSPipeline.process *)

\* the inputs of process()
PipelineTexts == {"deploy complete", "deployment complete", ""}
PipelineProviders == Providers \cup {"nosuch"}
PipelineVoices == {None, "Rachel"}
Outputs == {None, "out.mp3"}
\* what provider_instance.synthesize does: return bytes or raise
SynthOutcomes == Audio \cup {"TTSAPIError"}

\* "not text or not text.strip()"
IsBlank(text) == text = "" \/ text = " "

\* ProviderRegistry.get: KeyError for a name that is not registered
ProviderRegistered(provider) == provider \in Providers

\* "voice or ''"
VoiceOrEmpty(voice) == IF voice = None THEN "" ELSE voice

\* a call that raised before the cache lookup phase
RaisedEarly(text, provider, voice, output, cache, error) ==
    [text |-> text, provider |-> provider, voice |-> voice, output |-> output,
     cache |-> cache, lookup |-> "none", synth_calls |-> 0, synthesized |-> None,
     put_calls |-> 0, put_bytes |-> None, put_raised |-> FALSE,
     create_failed |-> FALSE, lookup_failed |-> FALSE,
     audio_out |-> None, raised |-> error,
     played |-> FALSE, saved |-> None, cached |-> FALSE]

\* the failures injected into the lookup of a process() call
PipelineLookupFaults == {"none", "search"}

\* mutant: the exception of cache_audio leaves process()
CacheStoreError_propagate(put_raised) ==
    IF put_raised THEN "RuntimeError" ELSE None

\* "except Exception as e: logger.error(f'Failed to cache audio: {e}')":
\* what leaves process() when cache_audio raised
CacheStoreError(put_raised) == None

\* TTSPipeline.process: the manager, its threshold and the cache afterwards,
\* and what the call did.  create_ok says whether an on-demand
\* SemanticCacheManager(...) comes up, tie how FAISS orders equal distances,
\* fault what fails inside the lookup, synth what the provider's synthesize
\* does if called.
process(c, mgr, thr, text, provider, voice, output, cache, cache_threshold, create_ok, tie, fault, synth) ==
    IF IsBlank(text)
    THEN [cache |-> c, manager |-> mgr, threshold |-> thr,
          run |-> RaisedEarly(text, provider, voice, output, cache, "ValueError")]
    ELSE IF ~ProviderRegistered(provider)
    THEN [cache |-> c, manager |-> mgr, threshold |-> thr,
          run |-> RaisedEarly(text, provider, voice, output, cache, "KeyError")]
    ELSE
    LET \* cache lookup phase
        creating == cache /\ mgr = None
        mgr1 == IF creating /\ create_ok THEN "loaded" ELSE mgr
        thr1 == IF creating /\ create_ok THEN cache_threshold ELSE thr
        cache1 == cache /\ ~(creating /\ ~create_ok)
        looked == cache1 /\ mgr1 # None
        got == get_cached_audio(c, thr1, text, provider, VoiceOrEmpty(voice),
                                tie, fault)
        cache_hit == looked /\ got.result # None
        \* synthesis phase
        synth_called == ~cache_hit
        synth_raised == synth_called /\ synth = "TTSAPIError"
        audio_data == IF cache_hit THEN c.files[got.result] ELSE synth
        storing == synth_called /\ ~synth_raised /\ cache1 /\ mgr1 # None
        put == cache_audio(c, text, provider, VoiceOrEmpty(voice), audio_data)
        c1 == IF storing THEN put.cache ELSE c
        error == IF synth_raised THEN synth
                 ELSE CacheStoreError(storing /\ put.raised)
    IN [cache |-> c1, manager |-> mgr1, threshold |-> thr1,
        run |-> [text |-> text, provider |-> provider, voice |-> voice,
                 output |-> output, cache |-> cache,
                 cache_threshold |-> cache_threshold,
                 lookup_threshold |-> IF looked THEN thr1 ELSE 0,
                 lookup |-> IF ~looked THEN "none"
                            ELSE IF cache_hit THEN "hit" ELSE "miss",
                 synth_calls |-> IF synth_called THEN 1 ELSE 0,
                 synthesized |-> IF synth_called /\ ~synth_raised
                                 THEN synth ELSE None,
                 put_calls |-> IF storing THEN 1 ELSE 0,
                 put_bytes |-> IF storing THEN audio_data ELSE None,
                 put_raised |-> storing /\ put.raised,
                 create_failed |-> creating /\ ~create_ok,
                 lookup_failed |-> looked /\ got.caught,
                 audio_out |-> IF error # None THEN None ELSE audio_data,
                 raised |-> error,
                 played |-> error = None /\ output = None,
                 saved |-> IF error # None THEN None ELSE output,
                 cached |-> error = None /\ cache_hit]]

\* TTSPipeline.__init__ with a pre-loaded manager or without one, over a
\* cache directory
PipelineInit ==
    /\ cache_manager \in {None, "loaded"}
    /\ threshold \in (IF cache_manager = None THEN {950} ELSE Thresholds)
    /\ \E n \in PreloadCounts :
         /\ embeddings = Preloaded(n).embeddings
         /\ db = Preloaded(n).db
         /\ files = Preloaded(n).files
    /\ last_put = NoPut
    /\ last_get = NoGet
    /\ last_op = "none"
    /\ n_puts = 0
    /\ n_gets = 0
    /\ n_env = 0
    /\ runs = <<>>

\* a call of TTSPipeline.process
Process ==
    /\ Len(runs) < MaxRuns
    /\ \E text \in PipelineTexts, provider \in PipelineProviders,
          voice \in PipelineVoices, output \in Outputs, cache \in BOOLEAN,
          synth \in SynthOutcomes :
       \* the inputs that only a call with caching reads
       \E cache_threshold \in (IF cache THEN Thresholds ELSE {950}),
          create_ok \in (IF cache /\ cache_manager = None THEN BOOLEAN ELSE {TRUE}),
          tie \in (IF cache THEN TieOrders ELSE {"old"}),
          fault \in (IF cache THEN PipelineLookupFaults ELSE {"none"}) :
         \E out \in {process(CurrentCache, cache_manager, threshold, text,
                            provider, voice, output, cache, cache_threshold,
                            create_ok, tie, fault, synth)} :
            /\ embeddings' = out.cache.embeddings
            /\ db' = out.cache.db
            /\ files' = out.cache.files
            /\ cache_manager' = out.manager
            /\ threshold' = out.threshold
            /\ runs' = Append(runs, out.run)
    /\ UNCHANGED <<last_put, last_get, last_op, n_puts, n_gets, n_env>>
    /\ UNCHANGED daemon_vars
    /\ UNCHANGED lifecycle_vars
    /\ UNCHANGED client_vars
    /\ UNCHANGED ext_vars

InitPipeline == DaemonInit /\ PipelineInit /\ LifecycleIdle /\ ClientIdle /\ ExtIdle

NextPipeline == Process

SpecPipeline == InitPipeline /\ [][NextPipeline]_vars

-----------------------------------------------------------------------------
(* The caller side: speak_text *)

MaxCalls == 2
MaxRequests == 3
MaxRestarts == 2

\* the arguments of speak_text that decide its path
SpeakTextCalls ==
    [use_daemon : BOOLEAN, queue : BOOLEAN, provider : {"system", "nosuch"}, cache : BOOLEAN]

\* ensure_daemon_running_async returns True or False, or raises
EnsureOutcomes == {"true", "false", "raise"}

\* DaemonClient.speak: what the status of the response can be.  An unreachable
\* daemon is a tagged error of the client; a reachable one answers a queued
\* request with success and an immediate one with the status of its result.
SpeakReplies(queue, reachable) ==
    IF ~reachable THEN {"error"}
    ELSE IF ShouldQueue([text |-> "hello", queue |-> queue]) THEN {"success"}
    ELSE {ResponseStatus(r) : r \in _process_speech([text |-> "hello", queue |-> queue])}

\* speak_text, after the first response
AfterFirst(status) == IF status = "success" THEN "returned" ELSE "restart"

\* mutant: an error response to the retry restarts the daemon again
AfterRetry_again(status) == IF status = "success" THEN "returned" ELSE "restart"

\* speak_text, after the response to the retry
AfterRetry(status) == IF status = "success" THEN "returned" ELSE "in_process"

\* the in-process cache lookup: a hit, a miss, or a failure that is swallowed
InProcessLookups == {"hit", "miss", "failed"}

\* AudioPlayer.save_to_file / play_bytes return or raise
OutputOutcomes == {"ok", "RuntimeError"}

\* speak_text(...) is called
CallSpeakText ==
    /\ st_pc \in {"idle", "returned", "raised"}
    /\ n_calls < MaxCalls
    /\ \E call \in SpeakTextCalls :
         /\ st_call' = call
         /\ st_pc' = IF call.use_daemon THEN "ensure" ELSE "in_process"
    /\ st_requests' = 0
    /\ st_restarts' = 0
    /\ st_responses' = <<>>
    /\ st_audio' = None
    /\ st_outcome' = None
    /\ n_calls' = n_calls + 1
    /\ UNCHANGED <<daemon_vars, cache_vars, pipeline_vars, lifecycle_vars>>
    /\ UNCHANGED ext_vars

\* "if await ensure_daemon_running_async():" -- False, or an exception caught
\* by "except Exception", leads to the in-process path
EnsureRunning ==
    /\ st_pc = "ensure"
    /\ \E r \in EnsureOutcomes : st_pc' = IF r = "true" THEN "speak" ELSE "in_process"
    /\ UNCHANGED <<st_call, st_requests, st_restarts, st_responses, st_audio,
                   st_outcome, n_calls>>
    /\ UNCHANGED <<daemon_vars, cache_vars, pipeline_vars, lifecycle_vars>>
    /\ UNCHANGED ext_vars

\* the first client.speak(...)
SendSpeak ==
    /\ st_pc = "speak"
    /\ st_requests < MaxRequests
    /\ \E reachable \in BOOLEAN : \E status \in SpeakReplies(st_call.queue, reachable) :
         /\ st_responses' = Append(st_responses, status)
         /\ st_pc' = AfterFirst(status)
         /\ st_outcome' = IF AfterFirst(status) = "returned" THEN "daemon" ELSE None
    /\ st_requests' = st_requests + 1
    /\ UNCHANGED <<st_call, st_restarts, st_audio, n_calls>>
    /\ UNCHANGED <<daemon_vars, cache_vars, pipeline_vars, lifecycle_vars>>
    /\ UNCHANGED ext_vars

\* "if await ensure_daemon_running_async(force_restart=True):"
ForceRestart ==
    /\ st_pc = "restart"
    /\ st_restarts < MaxRestarts
    /\ \E r \in EnsureOutcomes : st_pc' = IF r = "true" THEN "retry" ELSE "in_process"
    /\ st_restarts' = st_restarts + 1
    /\ UNCHANGED <<st_call, st_requests, st_responses, st_audio, st_outcome, n_calls>>
    /\ UNCHANGED <<daemon_vars, cache_vars, pipeline_vars, lifecycle_vars>>
    /\ UNCHANGED ext_vars

\* the second client.speak(...)
RetrySpeak ==
    /\ st_pc = "retry"
    /\ st_requests < MaxRequests
    /\ \E reachable \in BOOLEAN : \E status \in SpeakReplies(st_call.queue, reachable) :
         /\ st_responses' = Append(st_responses, status)
         /\ st_pc' = AfterRetry(status)
         /\ st_outcome' = IF AfterRetry(status) = "returned" THEN "daemon" ELSE None
    /\ st_requests' = st_requests + 1
    /\ UNCHANGED <<st_call, st_restarts, st_audio, n_calls>>
    /\ UNCHANGED <<daemon_vars, cache_vars, pipeline_vars, lifecycle_vars>>
    /\ UNCHANGED ext_vars

\* the in-process path: ProviderRegistry.get(provider) raises KeyError for an
\* unknown provider
InProcessProvider ==
    /\ st_pc = "in_process"
    /\ IF ProviderRegistered(st_call.provider)
       THEN /\ st_pc' = IF st_call.cache THEN "lookup" ELSE "synth"
            /\ UNCHANGED st_outcome
       ELSE /\ st_pc' = "raised"
            /\ st_outcome' = "KeyError"
    /\ UNCHANGED <<st_call, st_requests, st_restarts, st_responses, st_audio, n_calls>>
    /\ UNCHANGED <<daemon_vars, cache_vars, pipeline_vars, lifecycle_vars>>
    /\ UNCHANGED ext_vars

\* the in-process path: SemanticCacheManager(...) and get_cached_audio inside
\* try / except Exception
InProcessLookup ==
    /\ st_pc = "lookup"
    /\ \E found \in InProcessLookups :
         /\ st_audio' = IF found = "hit" THEN "cache" ELSE None
         /\ st_pc' = IF found = "hit" THEN "output" ELSE "synth"
    /\ UNCHANGED <<st_call, st_requests, st_restarts, st_responses, st_outcome, n_calls>>
    /\ UNCHANGED <<daemon_vars, cache_vars, pipeline_vars, lifecycle_vars>>
    /\ UNCHANGED ext_vars

\* the in-process path: provider_instance.synthesize; its exception leaves
\* speak_text, a failure to store the audio does not
InProcessSynth ==
    /\ st_pc = "synth"
    /\ \E synth \in SynthOutcomes :
         IF synth \in Audio
         THEN /\ st_audio' = "synth"
              /\ st_pc' = "output"
              /\ UNCHANGED st_outcome
         ELSE /\ st_pc' = "raised"
              /\ st_outcome' = synth
              /\ UNCHANGED st_audio
    /\ UNCHANGED <<st_call, st_requests, st_restarts, st_responses, n_calls>>
    /\ UNCHANGED <<daemon_vars, cache_vars, pipeline_vars, lifecycle_vars>>
    /\ UNCHANGED ext_vars

\* the in-process path: AudioPlayer().save_to_file / play_bytes
InProcessOutput ==
    /\ st_pc = "output"
    /\ \E o \in OutputOutcomes :
         /\ st_pc' = IF o = "ok" THEN "returned" ELSE "raised"
         /\ st_outcome' = IF o = "ok" THEN "in_process" ELSE o
    /\ UNCHANGED <<st_call, st_requests, st_restarts, st_responses, st_audio, n_calls>>
    /\ UNCHANGED <<daemon_vars, cache_vars, pipeline_vars, lifecycle_vars>>
    /\ UNCHANGED ext_vars

\* a step of the call in progress
SpeakTextStep ==
    \/ EnsureRunning
    \/ SendSpeak
    \/ ForceRestart
    \/ RetrySpeak
    \/ InProcessProvider
    \/ InProcessLookup
    \/ InProcessSynth
    \/ InProcessOutput


-----------------------------------------------------------------------------
(* The client: DaemonClient.send_request *)

MaxSends == 2

Methods == {"speak", "status", "queue_status"}

\* what a call can find at the socket path: no file; a file nobody listens
\* on; a file it may not open; a listener that resets the connection; one
\* that accepts and then neither writes nor closes; one that closes without
\* writing; one that writes text that is not JSON, or bytes that are not
\* UTF-8; one that writes a response
Peers == {"absent", "refused", "denied", "reset", "silent", "closes", "garbage",
          "binary", "answers"}

\* the responses a daemon writes
DaemonResponses == [id : {"req-1"}, status : {"success", "error"}]

\* json.dumps(response).encode()
JsonEncode(value) == [kind |-> "json", value |-> value]

\* what reader.read(65536) returns for a peer that ends the wait
PeerWrites(peer) ==
    CASE peer = "closes" -> {[kind |-> "eof"]}
      [] peer = "garbage" -> {[kind |-> "text"]}
      [] peer = "binary" -> {[kind |-> "bytes"]}
      [] peer = "answers" -> {JsonEncode(r) : r \in DaemonResponses}
      [] OTHER -> {}

\* json.loads(data.decode()): the value, or the exception
JsonDecode(data) ==
    CASE data.kind = "json" -> [exc |-> None, value |-> data.value]
      [] data.kind = "bytes" -> [exc |-> "UnicodeDecodeError", value |-> NoResult]
      [] OTHER -> [exc |-> "JSONDecodeError", value |-> NoResult]

\* open_unix_connection: the exception it raises, or None
ConnectError(peer) ==
    CASE peer = "absent" -> "FileNotFoundError"
      [] peer = "refused" -> "ConnectionRefusedError"
      [] peer = "denied" -> "PermissionError"
      [] OTHER -> None

\* mutant: send_request without its last handler
Tagged_no_catch_all(exc) == IF exc = "FileNotFoundError" THEN [raised |-> None, result |-> [status |-> "error", error |-> "Daemon not running"]] ELSE IF exc = "ConnectionRefusedError" THEN [raised |-> None, result |-> [status |-> "error", error |-> "Daemon not responding"]] ELSE IF exc = "JSONDecodeError" THEN [raised |-> None, result |-> [status |-> "error", error |-> "Invalid response from daemon: " \o exc]] ELSE [raised |-> exc, result |-> NoResult]

\* the except clauses of send_request: what the call returns for an exception
Tagged(exc) ==
    CASE exc = "FileNotFoundError" ->
            [raised |-> None, result |-> [status |-> "error", error |-> "Daemon not running"]]
      [] exc = "ConnectionRefusedError" ->
            [raised |-> None, result |-> [status |-> "error", error |-> "Daemon not responding"]]
      [] exc = "JSONDecodeError" ->
            [raised |-> None,
             result |-> [status |-> "error", error |-> "Invalid response from daemon: " \o exc]]
      [] OTHER ->
            [raised |-> None,
             result |-> [status |-> "error", error |-> "Communication error: " \o exc]]

\* send_request(method, params) is called
SendRequest ==
    /\ sr_pc \in {"idle", "returned", "raised"}
    /\ n_sends < MaxSends
    /\ \E method \in Methods, peer \in Peers :
         /\ sr_method' = method
         /\ sr_peer' = peer
    /\ sr_pc' = "connect"
    /\ sr_data' = NoData
    /\ sr_result' = NoResult
    /\ sr_raised' = None
    /\ n_sends' = n_sends + 1
    /\ UNCHANGED <<daemon_vars, cache_vars, pipeline_vars, lifecycle_vars, client_vars>>
    /\ UNCHANGED <<ensure_vars, conn_vars, index_vars>>

\* the call ends by exception exc: through the handlers
LeaveThrough(exc) ==
    \E out \in {Tagged(exc)} :
        /\ sr_result' = out.result
        /\ sr_raised' = out.raised
        /\ sr_pc' = IF out.raised = None THEN "returned" ELSE "raised"

\* await asyncio.open_unix_connection(path)
Connect ==
    /\ sr_pc = "connect"
    /\ IF ConnectError(sr_peer) = None
       THEN /\ sr_pc' = "write"
            /\ UNCHANGED <<sr_result, sr_raised>>
       ELSE LeaveThrough(ConnectError(sr_peer))
    /\ UNCHANGED <<sr_method, sr_peer, sr_data, n_sends>>
    /\ UNCHANGED <<daemon_vars, cache_vars, pipeline_vars, lifecycle_vars, client_vars>>
    /\ UNCHANGED <<ensure_vars, conn_vars, index_vars>>

\* writer.write(...); await writer.drain()
WriteRequest ==
    /\ sr_pc = "write"
    /\ IF sr_peer = "reset"
       THEN LeaveThrough("ConnectionResetError")
       ELSE /\ sr_pc' = "read"
            /\ UNCHANGED <<sr_result, sr_raised>>
    /\ UNCHANGED <<sr_method, sr_peer, sr_data, n_sends>>
    /\ UNCHANGED <<daemon_vars, cache_vars, pipeline_vars, lifecycle_vars, client_vars>>
    /\ UNCHANGED <<ensure_vars, conn_vars, index_vars>>

\* data = await reader.read(65536); json.loads(data.decode()): the read
\* returns when the peer has written or closed, and only then
ReadResponse ==
    /\ sr_pc = "read"
    /\ \E data \in PeerWrites(sr_peer) : \E parsed \in {JsonDecode(data)} :
         /\ sr_data' = data
         /\ IF parsed.exc = None
            THEN /\ sr_result' = parsed.value
                 /\ sr_pc' = "close"
                 /\ UNCHANGED sr_raised
            ELSE LeaveThrough(parsed.exc)
    /\ UNCHANGED <<sr_method, sr_peer, n_sends>>
    /\ UNCHANGED <<daemon_vars, cache_vars, pipeline_vars, lifecycle_vars, client_vars>>
    /\ UNCHANGED <<ensure_vars, conn_vars, index_vars>>

\* writer.close(); await writer.wait_closed(); return response
CloseAndReturn ==
    /\ sr_pc = "close"
    /\ sr_pc' = "returned"
    /\ UNCHANGED <<sr_method, sr_peer, sr_data, sr_result, sr_raised, n_sends>>
    /\ UNCHANGED <<daemon_vars, cache_vars, pipeline_vars, lifecycle_vars, client_vars>>
    /\ UNCHANGED <<ensure_vars, conn_vars, index_vars>>

\* a step of the call in progress
SendRequestStep == Connect \/ WriteRequest \/ ReadResponse \/ CloseAndReturn

InitClient == DaemonInit /\ CacheIdle /\ PipelineIdle /\ LifecycleIdle /\ ClientIdle /\ ExtIdle

NextClient == SendRequest \/ SendRequestStep

SpecClient == InitClient /\ [][NextClient]_vars

\* a call that can take a step eventually takes one
SpecClientLive == SpecClient /\ WF_vars(SendRequestStep)


-----------------------------------------------------------------------------
(* Auto-spawn: is_daemon_alive, spawn_daemon, ensure_daemon_running[_async] *)

MaxEnsure == 2

\* for i in range(300) / for i in range(100)
async_polls == 300
sync_polls == 100

PollLimit(variant) == IF variant = "async" THEN async_polls ELSE sync_polls

EnsureVariants == {"async", "sync"}

\* the lifecycle variables an ensure call never writes
lifecycle_rest == <<lock_holder, listening, models_loaded, worker_task, http_task, sigterm, daemon_error, probe_result, status_seen, http_enabled, cleanup_socket>>

\* the daemon process whose event loop serves the socket file, or None
AnsweringDaemon ==
    IF sock_file \in Daemons /\ listening[sock_file] THEN sock_file ELSE None

\* what a client finds at the socket path
PeerAtSocket ==
    IF sock_file = None THEN "absent"
    ELSE IF AnsweringDaemon # None THEN "answers"
    ELSE IF sock_file = "other" THEN "silent"
    ELSE "refused"

\* the results send_request("status", {}) can return for a peer; a daemon
\* answers a status request with success; no result: the call never returns
send_request_status(peer) ==
    IF ConnectError(peer) # None THEN {Tagged(ConnectError(peer)).result}
    ELSE IF peer = "answers" THEN {JsonDecode(JsonEncode([id |-> "req-1", status |-> "success"])).value}
    ELSE {IF JsonDecode(d).exc = None THEN JsonDecode(d).value ELSE Tagged(JsonDecode(d).exc).result : d \in PeerWrites(peer)}

\* mutant: a probe that never finds the daemon alive
is_daemon_alive_never(peer) == {FALSE}

\* is_daemon_alive(): False without a socket file, else whether the status
\* request came back with success; no value: it never returns
is_daemon_alive(peer) ==
    IF peer = "absent" THEN {FALSE}
    ELSE {r.status = "success" : r \in send_request_status(peer)}

\* the sync variant's probe: socket.connect with a 0.5 s timeout succeeds on
\* any listener
ConnectSucceeds(peer) == peer \in {"answers", "silent"}

\* the processes that have not been started yet
FreeDaemons == {d \in Daemons : daemon_pc[d] = "none"}

\* spawn_daemon(): Popen succeeds and a new process starts main(), or Popen
\* raises and spawn_daemon returns False
SpawnOutcomes == {"spawned", "failed"}

\* ensure_daemon_running[_async](force_restart) is called: with force_restart
\* the socket file is unlinked first
EnsureCall ==
    /\ er_pc \in {"idle", "returned"}
    /\ n_ensure < MaxEnsure
    /\ \E variant \in EnsureVariants, force \in BOOLEAN :
         /\ er_variant' = variant
         /\ er_force' = force
         /\ er_unlinked' = (force /\ sock_file # None)
         /\ sock_file' = IF force THEN None ELSE sock_file
         /\ er_pc' = IF variant = "async" THEN "a_check" ELSE "s_lock"
    /\ er_before' = AnsweringDaemon
    /\ er_polls' = 0
    /\ er_result' = "none"
    /\ er_answered' = None
    /\ er_spawned' = {}
    /\ n_ensure' = n_ensure + 1
    /\ UNCHANGED <<daemon_pc, lifecycle_rest>>
    /\ UNCHANGED <<daemon_vars, cache_vars, pipeline_vars, client_vars, request_vars, conn_vars, index_vars>>

\* the call returns result
EnsureReturns(result, answered) ==
    /\ er_result' = result
    /\ er_answered' = answered
    /\ er_pc' = "returned"

\* "Remove stale socket if exists", spawn_daemon(), and the way into the
\* polling loop
SpawnAndPoll(poll_pc) ==
    \E outcome \in SpawnOutcomes :
        IF outcome = "spawned"
        THEN \E d \in FreeDaemons :
                /\ daemon_pc' = [daemon_pc EXCEPT ![d] = "lock"]
                /\ er_spawned' = er_spawned \cup {d}
                /\ er_pc' = poll_pc
                /\ UNCHANGED <<er_result, er_answered>>
        ELSE /\ EnsureReturns("false", None)
             /\ UNCHANGED <<daemon_pc, er_spawned>>

\* async variant: "if await is_daemon_alive(): return True"; otherwise the
\* stale socket file is unlinked and a daemon spawned
AsyncCheck ==
    /\ er_pc = "a_check"
    /\ \E alive \in is_daemon_alive(PeerAtSocket) :
         IF alive
         THEN /\ EnsureReturns("true", AnsweringDaemon)
              /\ UNCHANGED <<sock_file, daemon_pc, er_spawned, er_unlinked>>
         ELSE /\ sock_file' = None
              /\ er_unlinked' = (er_unlinked \/ sock_file # None)
              /\ SpawnAndPoll("a_poll")
    /\ UNCHANGED <<er_variant, er_force, er_polls, er_before, n_ensure>>
    /\ UNCHANGED lifecycle_rest
    /\ UNCHANGED <<daemon_vars, cache_vars, pipeline_vars, client_vars, request_vars, conn_vars, index_vars>>

\* async variant: one iteration of "for i in range(300)" up to the check of
\* the socket file, or the return after the loop
AsyncPoll ==
    /\ er_pc = "a_poll"
    /\ IF er_polls = PollLimit(er_variant)
       THEN /\ EnsureReturns("false", None)
            /\ UNCHANGED er_polls
       ELSE /\ er_polls' = er_polls + 1
            /\ er_pc' = IF sock_file # None THEN "a_probe" ELSE "a_poll"
            /\ UNCHANGED <<er_result, er_answered>>
    /\ UNCHANGED <<er_variant, er_force, er_before, er_unlinked, er_spawned, n_ensure>>
    /\ UNCHANGED <<daemon_pc, sock_file, lifecycle_rest>>
    /\ UNCHANGED <<daemon_vars, cache_vars, pipeline_vars, client_vars, request_vars, conn_vars, index_vars>>

\* async variant: "if await is_daemon_alive(): return True" inside the loop
AsyncProbe ==
    /\ er_pc = "a_probe"
    /\ \E alive \in is_daemon_alive(PeerAtSocket) :
         IF alive
         THEN EnsureReturns("true", AnsweringDaemon)
         ELSE /\ er_pc' = "a_poll"
              /\ UNCHANGED <<er_result, er_answered>>
    /\ UNCHANGED <<er_variant, er_force, er_polls, er_before, er_unlinked, er_spawned, n_ensure>>
    /\ UNCHANGED <<daemon_pc, sock_file, lifecycle_rest>>
    /\ UNCHANGED <<daemon_vars, cache_vars, pipeline_vars, client_vars, request_vars, conn_vars, index_vars>>

\* sync variant: the non-blocking flock on daemon.lock.  Free: release it and
\* spawn.  Held: return True, whether the socket answers a connect, does not
\* answer, or does not exist.
SyncLock ==
    /\ er_pc = "s_lock"
    /\ IF LockFree(lock_holder)
       THEN SpawnAndPoll("s_poll")
       ELSE /\ EnsureReturns("true", IF ConnectSucceeds(PeerAtSocket) THEN sock_file ELSE None)
            /\ UNCHANGED <<daemon_pc, er_spawned>>
    /\ UNCHANGED <<er_variant, er_force, er_polls, er_before, er_unlinked, n_ensure>>
    /\ UNCHANGED <<sock_file, lifecycle_rest>>
    /\ UNCHANGED <<daemon_vars, cache_vars, pipeline_vars, client_vars, request_vars, conn_vars, index_vars>>

\* sync variant: one iteration of "for i in range(100)", or the return after
\* the loop
SyncPoll ==
    /\ er_pc = "s_poll"
    /\ IF er_polls = PollLimit(er_variant)
       THEN /\ EnsureReturns("false", None)
            /\ UNCHANGED er_polls
       ELSE /\ er_polls' = er_polls + 1
            /\ IF ConnectSucceeds(PeerAtSocket)
               THEN EnsureReturns("true", sock_file)
               ELSE UNCHANGED <<er_pc, er_result, er_answered>>
    /\ UNCHANGED <<er_variant, er_force, er_before, er_unlinked, er_spawned, n_ensure>>
    /\ UNCHANGED <<daemon_pc, sock_file, lifecycle_rest>>
    /\ UNCHANGED <<daemon_vars, cache_vars, pipeline_vars, client_vars, request_vars, conn_vars, index_vars>>

\* a step of the call in progress
EnsureStep == AsyncCheck \/ AsyncPoll \/ AsyncProbe \/ SyncLock \/ SyncPoll


-----------------------------------------------------------------------------
(* handle_client: connections that carry no request the daemon dispatches *)

MaxOther == 1

\* what such a client wrote before the daemon's read returned: a request with
\* a method the daemon does not know (with or without an id), an object
\* without "method", a speak request without "params", JSON that is not an
\* object, text that is not JSON, bytes that are not UTF-8, or nothing (it
\* closed its end)
OtherPayloads ==
    [kind : {"unknown_method"}, method : {"shutdown"}, id : {RequestId, None}]
    \cup [kind : {"no_method", "speak_no_params", "not_object", "malformed",
                  "not_utf8", "empty"},
          method : {None}, id : {RequestId}]

\* mutant: an unknown method answered like a known one
UnknownMethodResult_ok(method) == [ok |-> method]

\* handle_client: the else branch of the dispatch
UnknownMethodResult(method) == [error |-> "Unknown method: " \o method]

\* the exception the body of handle_client raises for a payload, or None
HandleClientRaises(payload) ==
    CASE payload.kind = "malformed" -> "JSONDecodeError"
      [] payload.kind = "not_utf8" -> "UnicodeDecodeError"
      [] payload.kind = "not_object" -> "AttributeError"
      [] payload.kind = "no_method" -> "KeyError: 'method'"
      [] payload.kind = "speak_no_params" -> "KeyError: 'params'"
      [] OTHER -> None

\* handle_client for such a payload: the responses written, in order, and
\* whether the writer was closed
handle_client(payload) ==
    IF payload.kind = "empty"
    THEN [written |-> <<>>, closed |-> TRUE]
    ELSE IF payload.kind = "unknown_method"
    THEN [written |-> <<[method |-> payload.method, params |-> <<>>, id |-> payload.id,
                         status |-> ResponseStatus(UnknownMethodResult(payload.method)),
                         result |-> UnknownMethodResult(payload.method)]>>,
          closed |-> TRUE]
    ELSE IF HandleClientRaises(payload) = "JSONDecodeError"
    THEN [written |-> <<[method |-> None, params |-> <<>>, id |-> None, status |-> "error",
                         result |-> [error |-> "Invalid JSON: " \o HandleClientRaises(payload)]]>>,
          closed |-> TRUE]
    ELSE [written |-> <<[method |-> None, params |-> <<>>, id |-> None, status |-> "error",
                         result |-> [error |-> HandleClientRaises(payload)]]>>,
          closed |-> TRUE]

\* one connection of this kind, from accept to close
HandleOther ==
    /\ running = "loop"
    /\ Len(conn_log) < MaxOther
    /\ \E payload \in OtherPayloads : \E out \in {handle_client(payload)} :
         /\ responses' = responses \o out.written
         /\ conn_log' = Append(conn_log,
                [payload |-> payload, written |-> out.written, closed |-> out.closed])
    /\ UNCHANGED <<speech_queue, queue_items, current_item, item_params, worker_pc,
                   worker_raised, running, enqueued, dequeued, started, finished,
                   outcomes, n_speak, n_status>>
    /\ UNCHANGED <<cache_vars, pipeline_vars, lifecycle_vars, client_vars>>
    /\ UNCHANGED <<expected_key, http_log>>
    /\ UNCHANGED <<request_vars, ensure_vars, index_vars>>

InitLifecycle == DaemonInit /\ CacheIdle /\ PipelineIdle /\ LifecycleInit /\ ClientIdle /\ ExtIdle

NextLifecycle ==
    \/ \E d \in Daemons : SpawnDaemon(d)
    \/ \E d \in Daemons : DaemonStep(d)
    \/ \E d \in Daemons : StatusRequest(d)
    \/ \E d \in Daemons : Sigterm(d)
    \/ OtherExits

SpecLifecycle == InitLifecycle /\ [][NextLifecycle]_vars

\* every daemon process that can take a step of its own eventually does
SpecLifecycleLive ==
    SpecLifecycle /\ \A d \in Daemons : WF_vars(DaemonStep(d))


InitSpeakText == DaemonInit /\ CacheIdle /\ PipelineIdle /\ LifecycleIdle /\ ClientIdle /\ ExtIdle

NextSpeakText == CallSpeakText \/ SpeakTextStep

SpecSpeakText == InitSpeakText /\ [][NextSpeakText]_vars

\* a call that can take a step eventually takes one
SpecSpeakTextLive == SpecSpeakText /\ WF_vars(SpeakTextStep)

\* nothing runs yet; daemons are started by ensure calls only, without the
\* HTTP server
InitEnsure == DaemonInit /\ CacheIdle /\ PipelineIdle /\ LifecycleInit /\ ~http_enabled /\ ClientIdle /\ ExtIdle

NextEnsure ==
    \/ EnsureCall
    \/ EnsureStep
    \/ \E d \in Daemons : DaemonStep(d)
    \/ \E d \in Daemons : Sigterm(d)

SpecEnsure == InitEnsure /\ [][NextEnsure]_vars

\* a call that can take a step eventually takes one
SpecEnsureLive == SpecEnsure /\ WF_vars(EnsureStep)


InitConnection == DaemonInit /\ CacheIdle /\ PipelineIdle /\ LifecycleIdle /\ ClientIdle /\ ExtIdle

NextConnection ==
    \/ SpeakQueued
    \/ SpeakImmediate
    \/ QueueStatus
    \/ HandleOther
    \/ WorkerGet
    \/ WorkerCall
    \/ WorkerReturn
    \/ WorkerFinish

SpecConnection == InitConnection /\ [][NextConnection]_vars

-----------------------------------------------------------------------------
(* SimilarityIndex: construction and add *)

\* SimilarityIndex.__init__ over the cache directory: load the index, load the
\* array, synchronise.  The object replaces the one constructed before it.
NewSimilarityIndex ==
    /\ Len(sim_loads) < MaxInstances
    /\ sim_instance' = TRUE
    /\ sim_embeddings' = _load_embeddings(embeddings_npy)
    /\ sim_index' = _sync_index_with_embeddings(_load_or_create_index(faiss_index),
                                                _load_embeddings(embeddings_npy))
    /\ sim_loads' = Append(sim_loads, Len(sim_positions))
    /\ sim_raised' = None
    /\ UNCHANGED <<embeddings_npy, faiss_index, sim_positions, sq_call, sq_result>>
    /\ UNCHANGED manager_vars
    /\ UNCHANGED <<daemon_vars, cache_vars, pipeline_vars, lifecycle_vars, client_vars>>
    /\ UNCHANGED <<request_vars, ensure_vars, conn_vars>>

\* SimilarityIndex.add: validate the shape, append to the array and to the
\* index, save both files, return the position.
IndexAdd ==
    /\ sim_instance
    /\ Len(sim_positions) < MaxAdds
    /\ \E embedding \in AddInputs :
         IF embedding.dim # EMBEDDING_DIM
         THEN /\ sim_raised' = "ValueError"
              /\ UNCHANGED <<sim_embeddings, sim_index, embeddings_npy, faiss_index,
                             sim_positions>>
         ELSE LET new_idx == index_add_position(sim_embeddings)
                  embedding_f32 == astype_float32(embedding)
              IN /\ sim_embeddings' = IF Len(sim_embeddings) = 0
                                      THEN <<embedding_f32>>
                                      ELSE sim_embeddings \o <<embedding_f32>>
                 /\ sim_index' = Append(sim_index, embedding_f32)
                 /\ embeddings_npy' = _save_embeddings(sim_embeddings')
                 /\ faiss_index' = _save_index(sim_index')
                 /\ sim_positions' = Append(sim_positions, new_idx)
                 /\ sim_raised' = None
    /\ UNCHANGED <<sim_instance, sim_loads, sq_call, sq_result>>
    /\ UNCHANGED manager_vars
    /\ UNCHANGED <<daemon_vars, cache_vars, pipeline_vars, lifecycle_vars, client_vars>>
    /\ UNCHANGED <<request_vars, ensure_vars, conn_vars>>

InitIndex == DaemonInit /\ CacheIdle /\ PipelineIdle /\ LifecycleIdle /\ ClientIdle /\ ExtIdle

NextIndex ==
    \/ NewSimilarityIndex
    \/ IndexAdd

SpecIndex == InitIndex /\ [][NextIndex]_vars

\* Out of band: one of the two files is removed, or overwritten with bytes
\* its reader rejects.  The object in memory is not touched.
DamageFile ==
    /\ \E damaged \in {NoFile, [exists |-> TRUE, readable |-> FALSE, rows |-> <<>>]} :
         \/ /\ embeddings_npy.exists /\ embeddings_npy.readable
            /\ embeddings_npy' = damaged
            /\ UNCHANGED faiss_index
         \/ /\ faiss_index.exists /\ faiss_index.readable
            /\ faiss_index' = damaged
            /\ UNCHANGED embeddings_npy
    /\ UNCHANGED <<sim_instance, sim_embeddings, sim_index, sim_positions, sim_loads,
                   sim_raised, sq_call, sq_result>>
    /\ UNCHANGED manager_vars
    /\ UNCHANGED <<daemon_vars, cache_vars, pipeline_vars, lifecycle_vars, client_vars>>
    /\ UNCHANGED <<request_vars, ensure_vars, conn_vars>>

NextRecovery ==
    \/ NewSimilarityIndex
    \/ IndexAdd
    \/ DamageFile

SpecRecovery == InitIndex /\ [][NextRecovery]_vars

\* The thresholds and result limits a caller may pass to search_multiple, in
\* thousandths; 1500 is outside [0.0, 1.0].
SearchThresholds == {300, 900, 950, 1000, 1500}
SearchLimits == {1, 2, max_results}

\* the vectors of the FAISS index, in its order
IndexVectors(index) == [i \in 1..Len(index) |-> index[i].value]

\* SimilarityIndex.search_multiple on the current object: validate the query
\* and the threshold, then search the index.  One search per run.
SearchMultiple ==
    /\ sim_instance
    /\ sq_call = NoSearch
    /\ \E query \in AddInputs, thr \in SearchThresholds, k \in SearchLimits,
          tie \in TieOrders :
         /\ sq_call' = [index |-> IndexVectors(sim_index), query |-> query.value,
                        threshold |-> thr, k |-> k, tie |-> tie]
         /\ sq_result' =
              IF query.dim # EMBEDDING_DIM \/ ~(0 <= thr /\ thr <= 1000)
              THEN [raised |-> "ValueError", results |-> <<>>]
              ELSE [raised |-> None,
                    results |-> search_multiple(IndexVectors(sim_index),
                                    astype_float32(query).value, thr, k, tie)]
    /\ UNCHANGED <<sim_instance, sim_embeddings, sim_index, embeddings_npy, faiss_index,
                   sim_positions, sim_loads, sim_raised>>
    /\ UNCHANGED manager_vars
    /\ UNCHANGED <<daemon_vars, cache_vars, pipeline_vars, lifecycle_vars, client_vars>>
    /\ UNCHANGED <<request_vars, ensure_vars, conn_vars>>

NextSearch ==
    \/ NewSimilarityIndex
    \/ IndexAdd
    \/ SearchMultiple

SpecSearch == InitIndex /\ [][NextSearch]_vars

-----------------------------------------------------------------------------
(* The HTTP routes *)

\* an entry of the request log
HttpEntry(endpoint, api_key, response) ==
    [endpoint |-> endpoint, api_key |-> api_key, response |-> response]

\* POST /speak: the dependency verify_api_key, then speak_endpoint, which
\* calls handle_speak with the dumped request.
HttpSpeak ==
    /\ running = "loop"
    /\ Len(http_log) < MaxHttp
    /\ n_speak < MaxSpeak
    /\ \E api_key \in ApiKeyHeaders, params \in HttpSpeakParams :
         \E denied \in {verify_api_key(expected_key, api_key)} :
           IF denied # None
           THEN /\ http_log' = Append(http_log,
                       HttpEntry("/speak", api_key, api_error_handler(401, denied)))
                /\ UNCHANGED daemon_vars
           ELSE IF ShouldQueue(params)
           THEN LET id == NewId(Len(enqueued) + 1)
                    items == Append(queue_items, id)
                IN /\ speech_queue' = Append(speech_queue, id)
                   /\ queue_items' = items
                   /\ item_params' = item_params @@ (id :> params)
                   /\ enqueued' = Append(enqueued, id)
                   /\ n_speak' = n_speak + 1
                   /\ http_log' = Append(http_log,
                          HttpEntry("/speak", api_key,
                              APIResponse("Speech queued successfully",
                                  [queue_id |-> id,
                                   queue_position |-> queue_position(items),
                                   timestamp |-> n_speak + 1])))
                   /\ UNCHANGED <<current_item, worker_pc, worker_raised, running,
                                  responses, dequeued, started, finished, outcomes,
                                  n_status>>
           ELSE /\ \E result \in _process_speech(params) :
                     http_log' = Append(http_log,
                         HttpEntry("/speak", api_key,
                             IF "error" \in DOMAIN result
                             THEN api_error_handler(500, result.error)
                             ELSE APIResponse("Speech processed successfully",
                                      [played |-> result.played, saved |-> result.saved,
                                       cached |-> result.cached])))
                /\ n_speak' = n_speak + 1
                /\ UNCHANGED <<speech_queue, queue_items, current_item, item_params,
                               worker_pc, worker_raised, running, responses, enqueued,
                               dequeued, started, finished, outcomes, n_status>>
    /\ UNCHANGED <<conn_log, expected_key>>
    /\ UNCHANGED <<cache_vars, pipeline_vars, lifecycle_vars, client_vars>>
    /\ UNCHANGED <<request_vars, ensure_vars, index_vars>>

\* GET /status: the dependency, then status_endpoint
HttpStatus ==
    /\ running = "loop"
    /\ Len(http_log) < MaxHttp
    /\ \E api_key \in ApiKeyHeaders :
         \E denied \in {verify_api_key(expected_key, api_key)} :
           http_log' = Append(http_log,
               HttpEntry("/status", api_key,
                   IF denied # None
                   THEN api_error_handler(401, denied)
                   ELSE APIResponse("Daemon running",
                            [pid |-> "pid", models_loaded |-> TRUE, uptime |-> "seconds"])))
    /\ UNCHANGED <<conn_log, expected_key>>
    /\ UNCHANGED <<daemon_vars, cache_vars, pipeline_vars, lifecycle_vars, client_vars>>
    /\ UNCHANGED <<request_vars, ensure_vars, index_vars>>

\* GET /queue: the dependency, then queue_endpoint, which calls
\* handle_queue_status
HttpQueue ==
    /\ running = "loop"
    /\ Len(http_log) < MaxHttp
    /\ \E api_key \in ApiKeyHeaders :
         \E denied \in {verify_api_key(expected_key, api_key)} :
           http_log' = Append(http_log,
               HttpEntry("/queue", api_key,
                   IF denied # None
                   THEN api_error_handler(401, denied)
                   ELSE APIResponse("Queue has " \o ToString(Len(queue_items)) \o " items",
                            handle_queue_status)))
    /\ UNCHANGED <<conn_log, expected_key>>
    /\ UNCHANGED <<daemon_vars, cache_vars, pipeline_vars, lifecycle_vars, client_vars>>
    /\ UNCHANGED <<request_vars, ensure_vars, index_vars>>

InitHttp == DaemonInit /\ CacheIdle /\ PipelineIdle /\ LifecycleIdle /\ ClientIdle /\ RequestIdle /\ EnsureIdle /\ IndexIdle /\ conn_log = <<>> /\ http_log = <<>> /\ expected_key \in ConfiguredKeys

NextHttp ==
    \/ HttpSpeak
    \/ HttpStatus
    \/ HttpQueue
    \/ WorkerGet
    \/ WorkerCall
    \/ WorkerReturn
    \/ WorkerFinish

SpecHttp == InitHttp /\ [][NextHttp]_vars

-----------------------------------------------------------------------------
(* cache_audio from several processes on one cache directory *)

\* the variables of the single SimilarityIndex object and of the search
single_index_vars == <<sim_instance, sim_embeddings, sim_index, sim_positions, sim_loads, sim_raised, sq_call, sq_result>>

\* EmbeddingGenerator.generate([text])[0]
GeneratedEmbedding(text) == [value |-> Embed(text), dtype |-> "float32", dim |-> EMBEDDING_DIM]

\* SimilarityIndex.add: the array the new row is appended to is the one the
\* object holds in memory
ArrayBeforeAdd(m) == mgr_embeddings[m]

\* SemanticCacheManager.__init__ in process m: SimilarityIndex(cache_dir)
\* loads the two files as they are now.
ManagerInit(m) ==
    /\ mgr_pc[m] = "none"
    /\ mgr_pc' = [mgr_pc EXCEPT ![m] = "ready"]
    /\ mgr_embeddings' = [mgr_embeddings EXCEPT ![m] = _load_embeddings(embeddings_npy)]
    /\ mgr_index' = [mgr_index EXCEPT ![m] =
          _sync_index_with_embeddings(_load_or_create_index(faiss_index),
                                      _load_embeddings(embeddings_npy))]
    /\ UNCHANGED <<mgr_entry, cache_rows, embeddings_npy, faiss_index, task>>
    /\ UNCHANGED single_index_vars
    /\ UNCHANGED <<daemon_vars, cache_vars, pipeline_vars, lifecycle_vars, client_vars>>
    /\ UNCHANGED <<request_vars, ensure_vars, conn_vars>>

\* cache_audio in process m up to the return of index.add: the embedding is
\* appended to the array and the index in memory, both are written out whole,
\* and the entry takes the position add returned.
PutAdd(m) ==
    /\ mgr_pc[m] = "ready"
    /\ Len(ArrayBeforeAdd(m)) < MaxAdds
    /\ \E text \in Texts :
         LET embs == ArrayBeforeAdd(m)
             embedding_idx == index_add_position(embs)
             embedding_f32 == astype_float32(GeneratedEmbedding(text))
         IN /\ mgr_embeddings' = [mgr_embeddings EXCEPT ![m] = embs \o <<embedding_f32>>]
            /\ mgr_index' = [mgr_index EXCEPT ![m] = Append(mgr_index[m], embedding_f32)]
            /\ embeddings_npy' = _save_embeddings(mgr_embeddings'[m])
            /\ faiss_index' = _save_index(mgr_index'[m])
            /\ mgr_entry' = [mgr_entry EXCEPT ![m] =
                   [text |-> text, embedding_idx |-> embedding_idx]]
    /\ mgr_pc' = [mgr_pc EXCEPT ![m] = "added"]
    /\ UNCHANGED <<cache_rows, task>>
    /\ UNCHANGED single_index_vars
    /\ UNCHANGED <<daemon_vars, cache_vars, pipeline_vars, lifecycle_vars, client_vars>>
    /\ UNCHANGED <<request_vars, ensure_vars, conn_vars>>

\* cache_audio in process m, storage.save(entry): the INSERT fails on a text
\* the table already has (one provider and voice here), else appends the row.
PutSave(m) ==
    /\ mgr_pc[m] = "added"
    /\ cache_rows' = IF \E i \in 1..Len(cache_rows) : cache_rows[i].text = mgr_entry[m].text
                     THEN cache_rows
                     ELSE Append(cache_rows, mgr_entry[m])
    /\ mgr_entry' = [mgr_entry EXCEPT ![m] = NoEntry]
    /\ mgr_pc' = [mgr_pc EXCEPT ![m] = "ready"]
    /\ UNCHANGED <<mgr_embeddings, mgr_index, embeddings_npy, faiss_index, task>>
    /\ UNCHANGED single_index_vars
    /\ UNCHANGED <<daemon_vars, cache_vars, pipeline_vars, lifecycle_vars, client_vars>>
    /\ UNCHANGED <<request_vars, ensure_vars, conn_vars>>

NextSharedPuts ==
    \/ \E m \in Managers : ManagerInit(m)
    \/ \E m \in Managers : PutAdd(m)
    \/ \E m \in Managers : PutSave(m)

SpecSharedPuts == InitIndex /\ [][NextSharedPuts]_vars

-----------------------------------------------------------------------------
(* Concurrent calls of TTSPipeline.process on one cache manager *)

\* The coroutines share self.cache_manager and run on one event loop, so each
\* runs alone between two suspensions.  get_cached_audio and cache_audio hold
\* no await that suspends; provider_instance.synthesize (asyncio.to_thread or
\* a subprocess) and play_bytes_async (asyncio.to_thread) do.
ConcurrentTexts == {"deploy complete", "deployment complete"}
ConcurrentVoices == {None, "Rachel"}

\* what the other variables of a step of a coroutine keep
TaskFrame ==
    /\ UNCHANGED <<threshold, last_put, last_get, last_op, n_puts, n_gets, n_env>>
    /\ UNCHANGED <<daemon_vars, pipeline_vars, lifecycle_vars, client_vars>>
    /\ UNCHANGED <<request_vars, ensure_vars, conn_vars>>
    /\ UNCHANGED <<embeddings_npy, faiss_index, mgr_pc, mgr_embeddings, mgr_index, mgr_entry, cache_rows>>
    /\ UNCHANGED single_index_vars

\* process() with cache=True from its entry to the first suspension: the
\* lookup, and on a miss the call of synthesize
TaskLookup(t) ==
    /\ task[t].pc = "new"
    /\ \E text \in ConcurrentTexts, voice \in ConcurrentVoices, tie \in TieOrders :
         \E got \in {get_cached_audio(CurrentCache, threshold, text, "elevenlabs",
                                        VoiceOrEmpty(voice), tie, "none")} :
            task' = [task EXCEPT ![t] =
                        [NoTask EXCEPT !.text = text, !.provider = "elevenlabs",
                                       !.voice = voice,
                                       !.lookup = IF got.result # None THEN "hit" ELSE "miss",
                                       !.pc = IF got.result # None THEN "play" ELSE "synth"]]
    /\ UNCHANGED <<embeddings, db, files>>
    /\ TaskFrame

\* synthesize returns or raises; on a return the audio is stored with
\* cache_audio, whose exception is logged, and the output phase begins
TaskStore(t) ==
    /\ task[t].pc = "synth"
    /\ \E synth \in SynthOutcomes :
         IF synth = "TTSAPIError"
         THEN /\ task' = [task EXCEPT ![t].pc = "done", ![t].raised = synth]
              /\ UNCHANGED <<embeddings, db, files>>
         ELSE \E put \in {cache_audio(CurrentCache, task[t].text, task[t].provider,
                                      VoiceOrEmpty(task[t].voice), synth)} :
                 /\ embeddings' = put.cache.embeddings
                 /\ db' = put.cache.db
                 /\ files' = put.cache.files
                 /\ task' = [task EXCEPT ![t].pc = "play", ![t].synthesized = synth,
                                         ![t].put_calls = 1,
                                         ![t].put_raised = put.raised]
    /\ TaskFrame

\* play_bytes_async returns
TaskPlayed(t) ==
    /\ task[t].pc = "play"
    /\ task' = [task EXCEPT ![t].pc = "done"]
    /\ UNCHANGED <<embeddings, db, files>>
    /\ TaskFrame

\* a daemon whose pipeline has its manager pre-loaded (server.py:586-589)
InitConcurrent == DaemonInit /\ PipelineInit /\ cache_manager = "loaded" /\ LifecycleIdle /\ ClientIdle /\ ExtIdle

NextConcurrent ==
    \/ \E t \in Tasks : TaskLookup(t)
    \/ \E t \in Tasks : TaskStore(t)
    \/ \E t \in Tasks : TaskPlayed(t)

SpecConcurrent == InitConcurrent /\ [][NextConcurrent]_vars

-----------------------------------------------------------------------------
(* The two execution paths of a request: TTSPipeline.process and the code of
   speak_text after the daemon was not used *)

\* what a request without an explicit voice carries, and one explicit voice
PathVoices == {None, "", "Rachel"}
PathTexts == {"deploy complete", "deployment complete"}
PathSynthOutcomes == {"AUDIO1", "AUDIO2", "TTSAPIError"}

\* speak_text, direct execution: "voice_id or 'default'", the voice of the
\* cache key
VoiceOrDefault(voice_id) == IF Truthy(voice_id) THEN voice_id ELSE "default"

\* the entry of `runs` for a call on one of the paths
PathRun(path, text, provider, voice, key_voice, lookup, synthesized, put_calls, put_raised, raised, audio_out) ==
    [path |-> path, text |-> text, provider |-> provider, voice |-> voice, key_voice |-> key_voice, lookup |-> lookup, synthesized |-> synthesized, put_calls |-> put_calls, put_raised |-> put_raised, raised |-> raised, audio_out |-> audio_out]

\* speak_text from "Fallback to direct execution" on, with cache=True: a new
\* SemanticCacheManager with the call's threshold, the lookup and the store
\* under the voice "voice_id or 'default'", synthesize with "voice_id or ''".
\* A manager that does not come up, and a failing store, are passed over; the
\* provider's exception leaves the call.
speak_text_direct(c, text, provider, voice_id, cache_threshold, create_ok, tie, synth) ==
    LET key_voice == VoiceOrDefault(voice_id)
        got == get_cached_audio(c, cache_threshold, text, provider, key_voice, tie, "none")
        cache_hit == create_ok /\ got.result # None
        synth_raised == ~cache_hit /\ synth = "TTSAPIError"
        audio_data == IF cache_hit THEN c.files[got.result] ELSE synth
        storing == ~cache_hit /\ ~synth_raised /\ create_ok
        put == cache_audio(c, text, provider, key_voice, audio_data)
    IN [cache |-> IF storing THEN put.cache ELSE c,
        run |-> PathRun("direct", text, provider, voice_id, key_voice,
                        IF ~create_ok THEN "none" ELSE IF cache_hit THEN "hit" ELSE "miss",
                        IF ~cache_hit /\ ~synth_raised THEN synth ELSE None,
                        IF storing THEN 1 ELSE 0, storing /\ put.raised,
                        IF synth_raised THEN synth ELSE None,
                        IF synth_raised THEN None ELSE audio_data)]

\* the frame of a call on either path
PathFrame ==
    /\ UNCHANGED <<last_put, last_get, last_op, n_puts, n_gets, n_env>>
    /\ UNCHANGED <<daemon_vars, lifecycle_vars, client_vars, ext_vars>>

\* a call of TTSPipeline.process with cache=True that plays the audio
PipelinePath ==
    /\ Len(runs) < MaxRuns
    /\ \E text \in PathTexts, voice \in PathVoices, tie \in TieOrders,
          synth \in PathSynthOutcomes, cache_threshold \in Thresholds :
         \E out \in {process(CurrentCache, cache_manager, threshold, text, "elevenlabs",
                            voice, None, TRUE, cache_threshold, TRUE, tie, "none", synth)} :
            /\ embeddings' = out.cache.embeddings
            /\ db' = out.cache.db
            /\ files' = out.cache.files
            /\ cache_manager' = out.manager
            /\ threshold' = out.threshold
            /\ runs' = Append(runs, PathRun("pipeline", text, "elevenlabs", voice,
                                           VoiceOrEmpty(voice), out.run.lookup,
                                           out.run.synthesized, out.run.put_calls,
                                           out.run.put_raised, out.run.raised,
                                           out.run.audio_out))
    /\ PathFrame

\* a call of speak_text that runs in process, with cache=True
DirectPath ==
    /\ Len(runs) < MaxRuns
    /\ \E text \in PathTexts, voice_id \in PathVoices, tie \in TieOrders,
          synth \in PathSynthOutcomes, cache_threshold \in Thresholds,
          create_ok \in BOOLEAN :
         \E out \in {speak_text_direct(CurrentCache, text, "elevenlabs", voice_id,
                                      cache_threshold, create_ok, tie, synth)} :
            /\ embeddings' = out.cache.embeddings
            /\ db' = out.cache.db
            /\ files' = out.cache.files
            /\ runs' = Append(runs, out.run)
    /\ UNCHANGED <<cache_manager, threshold>>
    /\ PathFrame

\* a cache directory with nothing in it, the manager pre-loaded or not
InitPaths == DaemonInit /\ PipelineInit /\ embeddings = <<>> /\ LifecycleIdle /\ ClientIdle /\ ExtIdle

NextPaths ==
    \/ PipelinePath
    \/ DirectPath

SpecPaths == InitPaths /\ [][NextPaths]_vars

Init == DaemonInit /\ CacheIdle /\ PipelineIdle /\ LifecycleIdle /\ ClientIdle /\ ExtIdle

Next ==
    \/ SpeakQueued
    \/ SpeakImmediate
    \/ QueueStatus
    \/ WorkerGet
    \/ WorkerCall
    \/ WorkerReturn
    \/ WorkerFinish

Spec == Init /\ [][Next]_vars

\* The event loop runs every ready task: the worker is never starved.
SpecLive == Spec /\ WF_vars(Worker)

-----------------------------------------------------------------------------
(* Properties of the daemon queue *)

\* the ids that have been dequeued and are still tracked: the items in
\* processing
InProcess == {i \in SeqToSet(dequeued) : i \in SeqToSet(queue_items)}

\* the ids whose pipeline has been invoked and has not come back
PipelineRunning == {i \in SeqToSet(started) : i \notin SeqToSet(finished)}

Waiting == SelectSeq(queue_items, LAMBDA i : i # current_item)

LastResponse == responses[Len(responses)]

QueuedFields == {"queued", "queue_id", "queue_position", "timestamp"}

\* C1: at most one queued item is in processing (current) at any time, the
\* worker never has the pipelines of two queued items running together, and
\* the items are dequeued and started in the order they were enqueued.
C1_SerialFifo ==
    /\ Cardinality(InProcess) <= 1
    /\ InProcess \subseteq {current_item}
    /\ Cardinality(PipelineRunning) <= 1
    /\ PipelineRunning \subseteq {current_item}
    /\ IsPrefix(dequeued, enqueued)
    /\ IsPrefix(started, enqueued)

\* C1 witness: two items are done and the third one's pipeline is running
C1_Witness ==
    /\ Len(finished) = 2
    /\ Len(started) = 3
    /\ current_item = enqueued[3]

\* C5: every enqueued item is eventually dequeued, is current once, and ends
\* up outside the tracking list; a step that enqueues nothing never makes the
\* waiting list longer; and the daemon settles with an empty tracking list
\* and no current item.
C5_Drained ==
    /\ [](NoDuplicates(dequeued))
    /\ [][enqueued' = enqueued => Len(Waiting') <= Len(Waiting)]_vars
    /\ \A n \in 1..MaxSpeak :
         (NewId(n) \in SeqToSet(enqueued))
            ~> (/\ NewId(n) \in SeqToSet(dequeued)
                /\ NewId(n) \notin SeqToSet(queue_items))
    /\ <>[](queue_items = <<>> /\ current_item = None)

\* C5 witness: three items were enqueued, each was current once, all are gone
C5_Witness ==
    /\ Len(enqueued) = 3
    /\ Len(dequeued) = 3
    /\ queue_items = <<>>
    /\ current_item = None

StatusIds(r) == SeqToSet(r.result.waiting) \cup ({r.result.current} \ {None})

\* C7: a speak request with queue=false changes neither the queue nor the
\* tracking list nor the current item, its response has none of the fields
\* queued, queue_id, queue_position, and no queue_status result names an item
\* made from such a request.
C7_ImmediateFrame ==
    /\ [][(Len(responses') > Len(responses)
             /\ LastResponse'.method = "speak"
             /\ DictGet(LastResponse'.params, "queue", TRUE) = FALSE)
          => UNCHANGED <<speech_queue, queue_items, current_item>>]_vars
    /\ [](\A i \in 1..Len(responses) :
            /\ (responses[i].method = "speak"
                  /\ DictGet(responses[i].params, "queue", TRUE) = FALSE)
               => DOMAIN responses[i].result
                    \cap {"queued", "queue_id", "queue_position"} = {}
            /\ responses[i].method = "queue_status"
               => \A id \in StatusIds(responses[i]) :
                    DictGet(item_params[id], "queue", TRUE) # FALSE)
    /\ [](\A id \in DOMAIN item_params :
            DictGet(item_params[id], "queue", TRUE) # FALSE)

\* C7 witness: with one item waiting, a queue=false request was answered and
\* the queue_status after it shows the waiting item alone
C7_Witness ==
    /\ Len(responses) = 3
    /\ "queued" \in DOMAIN responses[1].result
    /\ responses[2].method = "speak"
    /\ DictGet(responses[2].params, "queue", TRUE) = FALSE
    /\ responses[3].method = "queue_status"
    /\ responses[3].result.queue_size = 1
    /\ Len(responses[3].result.waiting) = 1

\* the ids whose pipeline call ended in an error
Failed == {i \in DOMAIN outcomes : "error" \in DOMAIN outcomes[i].result}

\* C8: an item whose pipeline failed is taken off the tracking list and
\* current is cleared when the worker is through with it, and the worker goes
\* on: every item enqueued, before or after a failed one, is processed.
C8_FailureIsolated ==
    /\ [](\A i \in Failed :
            (i # current_item) => i \notin SeqToSet(queue_items))
    /\ []((worker_pc = "get" /\ running = "loop") => current_item = None)
    /\ \A n \in 1..MaxSpeak :
         (NewId(n) \in SeqToSet(enqueued)) ~> (NewId(n) \in SeqToSet(finished))

\* C8 witness: the first item failed, and the items enqueued with it and
\* after it have been processed
C8_Witness ==
    /\ Len(enqueued) = 3
    /\ enqueued[1] \in Failed
    /\ Len(finished) = 3
    /\ queue_items = <<>>
    /\ current_item = None

-----------------------------------------------------------------------------
(* Properties of the semantic cache *)

\* the latest call is a get_cached_audio, made directly after a cache_audio
\* that did not raise, with the same text, provider and voice, and nothing
\* failed inside the lookup
GetAfterSamePut ==
    /\ last_op = "get"
    /\ last_get.after_put
    /\ ~last_put.raised
    /\ last_get.fault = "none"
    /\ last_get.text = last_put.text
    /\ last_get.provider = last_put.provider
    /\ last_get.voice = last_put.voice

\* C2: a put that did not raise, followed by a get with the same text,
\* provider and voice, returns a path whose bytes are the bytes put.
C2_RoundTrip ==
    GetAfterSamePut =>
        /\ last_get.result # None
        /\ Exists(files, last_get.result)
        /\ files[last_get.result] = last_put.audio

\* the rows a returned path belongs to
RowsOfPath(path) == {i \in 1..Len(db) : db[i].audio_path = path}

\* C3: a get that returns a path returns the path of a record whose provider
\* and voice are the requested ones; and when the cache holds one record,
\* a get for its text with another provider or another voice misses.
C3_Isolation ==
    (last_op = "get" /\ last_get.result # None) =>
        /\ RowsOfPath(last_get.result) # {}
        /\ \A i \in RowsOfPath(last_get.result) :
               /\ db[i].provider = last_get.provider
               /\ db[i].voice = last_get.voice

\* C3, the case of the claim: one record, same text, other provider or voice
C3_Witness ==
    /\ last_op = "get"
    /\ Len(db) = 1
    /\ last_get.fault = "none"
    /\ last_get.text = db[1].text
    /\ Similarity(L2Distance(Embed(last_get.text), embeddings[1])) = 1000
    /\ (last_get.provider # db[1].provider \/ last_get.voice # db[1].voice)
    /\ last_get.result = None

\* the latest call is a cache_audio for a key the table already held
DuplicatePut ==
    /\ last_op = "put"
    /\ \E i \in 1..Len(db) :
         /\ db[i].text = last_put.text
         /\ db[i].provider = last_put.provider
         /\ db[i].voice = last_put.voice
         /\ db[i].embedding_idx < Len(embeddings) - 1

\* the table holds no two rows with one (text, provider, voice), and a
\* cache_audio for a key the table holds has raised RuntimeError with the
\* constraint violation as its cause
UniqueTable ==
    /\ \A i, j \in 1..Len(db) :
           (/\ db[i].text = db[j].text
            /\ db[i].provider = db[j].provider
            /\ db[i].voice = db[j].voice) => i = j
    /\ DuplicatePut =>
           /\ last_put.raised
           /\ last_put.error = "RuntimeError"
           /\ last_put.cause = "IntegrityError"

\* C4: a second cache_audio for a key the table holds is rejected with a
\* constraint violation; the table never holds two rows with one (text,
\* provider, voice); and no step changes a saved row, so the first row keeps
\* its embedding position.
C4_Unique ==
    /\ []UniqueTable
    /\ [][\A i \in 1..Len(db) : i <= Len(db') /\ db'[i] = db[i]]_vars

\* C4, the case of the claim: a second put for a key, with other audio
C4_Witness ==
    /\ DuplicatePut
    /\ last_put.raised
    /\ last_put.audio = "AUDIO2"
    /\ Len(db) = 1
    /\ db[1].embedding_idx = 0
    /\ Len(embeddings) = 2

-----------------------------------------------------------------------------
(* Properties of the pipeline *)

\* the calls of process() that looked the text up in the cache and returned
Looked == {i \in 1..Len(runs) : runs[i].lookup # "none" /\ runs[i].raised = None}

\* synthesize is called if and only if the lookup missed; a hit gives
\* cached = true without synthesize or cache_audio; a miss gives cached = false,
\* one synthesize and one cache_audio with the synthesized bytes
LookupDecides ==
    \A i \in Looked :
        /\ runs[i].lookup = "hit" =>
               /\ runs[i].cached
               /\ runs[i].synth_calls = 0
               /\ runs[i].put_calls = 0
        /\ runs[i].lookup = "miss" =>
               /\ ~runs[i].cached
               /\ runs[i].synth_calls = 1
               /\ runs[i].put_calls = 1
               /\ runs[i].put_bytes = runs[i].synthesized

\* two calls with the same arguments and caching on, the first a miss, and
\* nothing failed inside either lookup
MissThenSame ==
    /\ Len(runs) = 2
    /\ 1 \in Looked
    /\ runs[1].lookup = "miss"
    /\ ~runs[1].lookup_failed
    /\ ~runs[2].lookup_failed
    /\ runs[2].cache
    /\ runs[2].text = runs[1].text
    /\ runs[2].provider = runs[1].provider
    /\ runs[2].voice = runs[1].voice
    /\ runs[2].output = runs[1].output

\* C9: with caching on, a hit means cached = true and no synthesize or put,
\* a miss means cached = false, one synthesize and one put of the synthesized
\* bytes; and after a miss a second identical request hits and outputs the
\* bytes of the first.
C9_SynthIffMiss ==
    /\ LookupDecides
    /\ MissThenSame =>
           /\ runs[2].lookup = "hit"
           /\ runs[2].cached
           /\ runs[2].audio_out = runs[1].audio_out

-----------------------------------------------------------------------------
(* Properties of the lookup over a cache directory changed from outside *)

\* similarity of the looked-up text to the vector at position i (0-based)
SimTo(text, i) == Similarity(L2Distance(Embed(text), embeddings[i + 1]))

\* the positions the latest lookup could use: at or above the threshold, with
\* a row of the requested provider and voice whose audio file exists
Qualifying ==
    {i \in 0..(Len(embeddings) - 1) :
        /\ SimTo(last_get.text, i) >= threshold
        /\ \E k \in 1..Len(db) :
             /\ db[k].embedding_idx = i
             /\ db[k].provider = last_get.provider
             /\ db[k].voice = last_get.voice
             /\ Exists(files, db[k].audio_path)}

\* the positions at or above the threshold that have no row
Rowless ==
    {i \in 0..(Len(embeddings) - 1) :
        /\ SimTo(last_get.text, i) >= threshold
        /\ \A k \in 1..Len(db) : db[k].embedding_idx # i}

\* the positions whose row has the path the latest lookup returned
Returned ==
    {i \in 0..(Len(embeddings) - 1) :
        \E k \in 1..Len(db) :
            db[k].embedding_idx = i /\ db[k].audio_path = last_get.result}

\* C11: a lookup in which nothing raised, over an index of at most
\* max_results vectors, returns the path of a most similar position among
\* those that are above the threshold, have a row of the requested provider
\* and voice and an existing audio file; positions without a row or without
\* a file are passed over; with no such position the result is a miss.
C11_FirstQualifying ==
    (/\ last_op = "get"
     /\ last_get.fault = "none"
     /\ Len(embeddings) <= max_results) =>
        /\ ~last_get.raised
        /\ ~last_get.caught
        /\ IF Qualifying = {}
           THEN last_get.result = None
           ELSE \E i \in Qualifying \cap Returned :
                    \A j \in Qualifying :
                        SimTo(last_get.text, j) <= SimTo(last_get.text, i)

\* C11, the case of the claim: the most similar position has lost its row,
\* and the lookup returns a less similar one
C11_Witness ==
    /\ last_op = "get"
    /\ last_get.fault = "none"
    /\ last_get.result # None
    /\ \E j \in Rowless, i \in Qualifying \cap Returned :
           SimTo(last_get.text, j) > SimTo(last_get.text, i)

-----------------------------------------------------------------------------
(* Properties of a failed cache_audio *)

\* the path cache_audio gave the audio of its latest call
LastPutPath == AudioPath(last_put.text, last_put.provider, last_put.voice)

\* the step is a cache_audio call that raised
PutRaises == n_puts' = n_puts + 1 /\ last_put'.raised

-----------------------------------------------------------------------------
(* Properties of the pipeline when the cache layer fails *)

\* the calls of process() with caching on in which the cache layer failed:
\* the manager did not come up, the lookup raised inside, or the store raised
CacheLayerFailed ==
    {i \in 1..Len(runs) :
        /\ runs[i].cache
        /\ \/ runs[i].create_failed
           \/ runs[i].lookup_failed
           \/ runs[i].put_raised}

\* the call delivered its audio: exactly one of playing and saving
Delivered(run) ==
    /\ run.raised = None
    /\ run.audio_out # None
    /\ run.played = (run.output = None)
    /\ run.saved = run.output

\* C13: a call of process() in which the cache manager could not be created,
\* the lookup failed or the store failed still calls synthesize once; nothing
\* but the provider's own error leaves it, and when synthesize returns the
\* call plays or saves the synthesized bytes and returns a result.
C13_CacheFailureNoBlock ==
    \A i \in CacheLayerFailed :
        /\ runs[i].synth_calls = 1
        /\ runs[i].raised \in {None, "TTSAPIError"}
        /\ runs[i].synthesized # None =>
               /\ Delivered(runs[i])
               /\ runs[i].audio_out = runs[i].synthesized
               /\ ~runs[i].cached

\* C13, the case of the claim: the lookup failed, the store failed too, and
\* the audio was saved
C13_Witness ==
    \E i \in CacheLayerFailed :
        /\ runs[i].lookup_failed
        /\ runs[i].put_raised
        /\ Delivered(runs[i])
        /\ runs[i].saved = "out.mp3"

-----------------------------------------------------------------------------
(* Properties of the daemon's answers to failing speak requests *)

\* the speak responses sent so far
SpeakResponses == {k \in 1..Len(responses) : responses[k].method = "speak"}

\* the handling of the request answered by r has failed: for a queued request
\* the worker's pipeline call for its item, for an immediate one the inline call
HandlingFailed(r) ==
    IF "queue_id" \in DOMAIN r.result
    THEN r.result.queue_id \in Failed
    ELSE "error" \in DOMAIN r.result

\* C14: a speak request whose handling fails is answered with status "error",
\* never with "success".
C14_FailureReachesRequester ==
    \A k \in SpeakResponses :
        HandlingFailed(responses[k]) => responses[k].status = "error"

\* C15: a speak request with an empty or blank text is answered with the
\* error "Text cannot be empty" (the ValueError of the validation), whatever
\* its queue flag, and no item is ever enqueued for such a text.
C15_EmptyTextRejected ==
    /\ \A k \in SpeakResponses :
           IsBlank(responses[k].params.text) =>
               /\ responses[k].status = "error"
               /\ responses[k].result = [error |-> "ValueError"]
    /\ \A id \in DOMAIN item_params : ~IsBlank(item_params[id].text)


-----------------------------------------------------------------------------
(* Properties of the daemon processes *)

LockError == "another daemon is already running"

\* d is past STARTING: it took the lock and start() has not reached its finally
PastStarting(d) == daemon_pc[d] \in PastStartingPcs

\* d failed startup on the lock
FailedOnLock(d) == daemon_pc[d] = "failed" /\ daemon_error[d] = LockError

\* a daemon that failed on the lock has loaded nothing, probed nothing, bound
\* nothing and started no worker
Untouched(d) ==
    /\ ~models_loaded[d]
    /\ worker_task[d] = "none"
    /\ http_task[d] = "none"
    /\ probe_result[d] = "none"
    /\ ~listening[d]
    /\ sock_file # d

SingleDaemon ==
    /\ \A d, e \in Daemons : PastStarting(d) /\ PastStarting(e) => d = e
    /\ \A d \in Daemons : PastStarting(d) => lock_holder = d
    /\ \A d \in Daemons : FailedOnLock(d) => Untouched(d)

\* the step on which d's start attempt meets a held lock
LockRefused(d) == daemon_pc[d] = "lock" /\ lock_holder # None /\ daemon_pc'[d] # "lock"

\* C16: at most one daemon process is past STARTING; a daemon that cannot take
\* the lock fails with "another daemon is already running" having loaded no
\* models, left the socket file alone and started no worker; and the lock
\* leaves its holder only when the holder's start() ends.
C16_SingleDaemon ==
    /\ []SingleDaemon
    /\ [][\A d \in Daemons :
            /\ LockRefused(d) => /\ daemon_pc'[d] = "failed"
                                 /\ daemon_error'[d] = LockError
                                 /\ sock_file' = sock_file
                                 /\ lock_holder' = lock_holder
            /\ (lock_holder = d /\ lock_holder' # d) =>
                   /\ lock_holder' = None
                   /\ daemon_pc'[d] \in {"unlocked", "failed"}]_vars

\* one daemon serves while the other has failed on the lock
C16_Witness ==
    \E d, e \in Daemons :
        /\ daemon_pc[d] = "serving"
        /\ lock_holder = d
        /\ FailedOnLock(e)

SocketInUse == "socket is already in use"

\* the step on which d's startup examines the socket path
ProbeStep(d) == daemon_pc[d] = "probe" /\ daemon_pc'[d] # "probe"

\* a step of d's startup, up to and including the bind
StartupStep(d) ==
    /\ daemon_pc[d] \in {"lock", "models", "worker", "probe", "bind"}
    /\ daemon_pc'[d] # daemon_pc[d]

\* C17: a starting daemon takes an existing socket file away only on the step
\* whose connection probe found no listener, and never binds over an existing
\* file; a probe that finds a listener ends startup with an error and leaves
\* the file as it was.
C17_ProbeBeforeUnlink ==
    [][\A d \in Daemons :
        /\ (StartupStep(d) /\ sock_file # None /\ sock_file' # sock_file) =>
               /\ ProbeStep(d)
               /\ ~ProbeConnects
               /\ probe_result'[d] = "dead"
               /\ sock_file' = None
        /\ (ProbeStep(d) /\ sock_file # None /\ ProbeConnects) =>
               /\ probe_result'[d] = "live"
               /\ daemon_pc'[d] = "failed"
               /\ daemon_error'[d] = SocketInUse
               /\ sock_file' = sock_file]_vars

\* one daemon was turned away by a live listener, whose file outlived it; a
\* later daemon found the file dead, unlinked it and bound its own
C17_Witness ==
    \E d, e \in Daemons :
        /\ probe_result[d] = "live"
        /\ daemon_pc[d] = "failed"
        /\ daemon_error[d] = SocketInUse
        /\ probe_result[e] = "dead"
        /\ sock_file = e
        /\ listening[e]

\* d accepts connections on the socket or over HTTP
Accepting(d) == listening[d] \/ sock_file = d \/ http_task[d] = "running"

\* C18: a daemon has set models_loaded before it binds its socket or starts
\* its HTTP server, so no status response ever reports models_loaded = false.
C18_WarmBeforeBind ==
    /\ \A d \in Daemons : Accepting(d) => models_loaded[d]
    /\ \A d \in Daemons : daemon_pc[d] \in {"bind", "bound", "serving"} => models_loaded[d]
    /\ status_seen \subseteq {TRUE}

\* a daemon serving on the socket and over HTTP has answered a status request
C18_Witness ==
    \E d \in Daemons :
        /\ daemon_pc[d] = "serving"
        /\ listening[d]
        /\ http_task[d] = "running"
        /\ status_seen = {TRUE}

\* d is a serving daemon that has been sent the termination signal
Terminating(d) == sigterm[d] /\ daemon_pc[d] = "serving"

\* d's accept loop, queue worker and HTTP server have ended
TasksCancelled(d) ==
    /\ ~listening[d]
    /\ worker_task[d] = "cancelled"
    /\ http_task[d] \in {"none", "cancelled"}

\* d has stopped and left neither the lock nor its socket file behind
StoppedClean(d) ==
    /\ daemon_pc[d] = "stopped"
    /\ TasksCancelled(d)
    /\ lock_holder # d
    /\ sock_file # d

\* C19: a serving daemon that is sent the termination signal eventually is
\* stopped with its accept loop, queue worker and HTTP server cancelled, the
\* lock released and its socket file removed.
C19_GracefulShutdown ==
    \A d \in Daemons : Terminating(d) ~> StoppedClean(d)

-----------------------------------------------------------------------------
(* Properties of speak_text *)

InCall == st_pc \notin {"idle", "returned", "raised"}
Ended == st_pc \in {"returned", "raised"}
InProcessPcs == {"in_process", "lookup", "synth", "output"}
InProcessExceptions == {"KeyError", "TTSAPIError", "RuntimeError"}

\* the counts of one call, and what they imply about the responses received
AtMostTwoRequests ==
    /\ st_requests <= 2
    /\ st_restarts <= 1
    /\ Len(st_responses) = st_requests
    /\ st_restarts = 1 => (st_requests >= 1 /\ st_responses[1] = "error")
    /\ st_requests = 2 => st_restarts = 1
    /\ (st_call # NoCall /\ ~st_call.use_daemon) => (st_requests = 0 /\ st_restarts = 0)

\* a call that has ended has one of the three outcomes
EndsThreeWays ==
    Ended =>
       \/ /\ st_pc = "returned" /\ st_outcome = "daemon"
          /\ st_requests >= 1 /\ st_responses[st_requests] = "success"
          /\ st_audio = None
       \/ /\ st_pc = "returned" /\ st_outcome = "in_process"
          /\ st_audio \in {"cache", "synth"}
       \/ /\ st_pc = "raised" /\ st_outcome \in InProcessExceptions

\* the order of the daemon attempts, and no way back from the in-process path
FallbackOrder ==
    /\ (st_pc = "ensure" /\ st_pc' # st_pc) => st_pc' \in {"speak", "in_process"}
    /\ (st_pc = "speak" /\ st_pc' # st_pc) =>
           st_pc' = IF st_responses'[1] = "success" THEN "returned" ELSE "restart"
    /\ (st_pc = "restart" /\ st_pc' # st_pc) =>
           /\ st_restarts' = st_restarts + 1
           /\ st_pc' \in {"retry", "in_process"}
    /\ (st_pc = "retry" /\ st_pc' # st_pc) =>
           st_pc' = IF st_responses'[2] = "success" THEN "returned" ELSE "in_process"
    /\ (st_pc \in InProcessPcs /\ st_pc' # st_pc) =>
           /\ st_pc' \in InProcessPcs \cup {"returned", "raised"}
           /\ st_requests' = st_requests
           /\ st_restarts' = st_restarts
           /\ st_outcome' # "daemon"

-----------------------------------------------------------------------------
(* Properties of send_request *)

ErrorResult(message) == [status |-> "error", error |-> message]

\* what the call must return for each peer
ExpectedResults(peer) ==
    CASE peer = "absent" -> {ErrorResult("Daemon not running")}
      [] peer = "refused" -> {ErrorResult("Daemon not responding")}
      [] peer \in {"closes", "garbage"} ->
            {ErrorResult("Invalid response from daemon: JSONDecodeError")}
      [] peer = "denied" -> {ErrorResult("Communication error: PermissionError")}
      [] peer = "reset" -> {ErrorResult("Communication error: ConnectionResetError")}
      [] peer = "binary" -> {ErrorResult("Communication error: UnicodeDecodeError")}
      [] peer = "answers" -> DaemonResponses
      [] OTHER -> {}

C26_AlwaysReturns ==
    \A peer \in Peers : (sr_pc = "connect" /\ sr_peer = peer) ~> (sr_pc = "returned")

-----------------------------------------------------------------------------
(* Properties of ensure_daemon_running *)

\* the step on which a call makes its first check (status probe or lock)
FirstCheck == er_pc \in {"a_check", "s_lock"} /\ er_pc' # er_pc

\* the step on which a call returns
ReturnStep == er_pc # "returned" /\ er_pc' = "returned"

\* C21: a call without force_restart whose first check finds a daemon
\* answering returns success on that step, spawns nothing, leaves the socket
\* file in place, and the same daemon goes on answering.
C21_Idempotent ==
    [][(FirstCheck /\ ~er_force /\ AnsweringDaemon # None) =>
          /\ er_pc' = "returned"
          /\ er_result' = "true"
          /\ er_spawned' = {}
          /\ ~er_unlinked'
          /\ daemon_pc' = daemon_pc
          /\ sock_file' = sock_file
          /\ AnsweringDaemon' = AnsweringDaemon]_vars

\* a second call, made while the daemon of the first was serving, has returned
\* success on that daemon without spawning
C21_Witness ==
    /\ n_ensure = 2
    /\ er_pc = "returned"
    /\ ~er_force
    /\ er_result = "true"
    /\ er_before \in Daemons
    /\ er_answered = er_before
    /\ er_spawned = {}
    /\ AnsweringDaemon = er_before

\* C22: a call returns success only if at its return the socket file exists
\* and a daemon answered the probe on it.
C22_SuccessMeansAnswered ==
    [][(ReturnStep /\ er_result' = "true") =>
          /\ sock_file' # None
          /\ er_answered' # None
          /\ er_answered' = sock_file']_vars

\* the call returned failure because spawn_daemon() failed
SpawnFailed == er_pc = "returned" /\ er_result = "false" /\ er_polls = 0

\* the call is between its start and its return
InEnsure == er_pc \notin {"idle", "returned"}

\* C23: a call never polls more often than its variant's limit (300 async,
\* 100 sync), a failed spawn makes it return failure without polling, and
\* every call returns.
C23_EnsureTerminates ==
    /\ [](er_polls <= PollLimit(er_variant))
    /\ [][(FirstCheck /\ er_spawned' = {} /\ er_pc' = "returned" /\ er_result' = "false") => er_polls' = 0]_vars
    /\ InEnsure ~> (er_pc = "returned")

\* C24: a call with force_restart made while a daemon is running, whose spawn
\* did not fail, returns success on a probe answered by a daemon process
\* other than that one.
C24_ForceRestartReplaces ==
    (er_pc = "returned" /\ er_force /\ er_before \in Daemons /\ ~SpawnFailed) =>
        /\ er_result = "true"
        /\ er_answered \in Daemons \ {er_before}

-----------------------------------------------------------------------------
(* Properties of handle_client *)

\* the connection handled on this step, when it carried an unknown method
UnknownMethodStep ==
    /\ Len(conn_log') = Len(conn_log) + 1
    /\ conn_log'[Len(conn_log')].payload.kind = "unknown_method"

\* C27: a request with an unknown method is answered by one response with
\* status 'error', the request's id and an error naming the method; the
\* connection is closed, and the queue, the tracking list and the current
\* item are unchanged.
C27_UnknownMethod ==
    [][UnknownMethodStep =>
          LET conn == conn_log'[Len(conn_log')]
          IN /\ Len(conn.written) = 1
             /\ conn.written[1].status = "error"
             /\ conn.written[1].id = conn.payload.id
             /\ conn.written[1].result = [error |-> "Unknown method: " \o conn.payload.method]
             /\ conn.closed
             /\ responses' = Append(responses, conn.written[1])
             /\ speech_queue' = speech_queue
             /\ queue_items' = queue_items
             /\ current_item' = current_item]_vars

\* an unknown method was answered while one item was being spoken and another
\* waited in the queue
C27_Witness ==
    /\ Len(conn_log) = 1
    /\ conn_log[1].payload.kind = "unknown_method"
    /\ conn_log[1].payload.id = RequestId
    /\ responses[Len(responses)].method = "shutdown"
    /\ current_item # None
    /\ Len(speech_queue) = 1
    /\ Len(queue_items) = 2

\* C28: every connection gets exactly one response with id, status and
\* result and is then closed, whatever was sent; malformed JSON gives status
\* 'error', id null and a message.
C28_OneResponse ==
    /\ Len(responses) = n_speak + n_status + Len(conn_log)
    /\ \A i \in 1..Len(responses) : {"id", "status", "result"} \subseteq DOMAIN responses[i]
    /\ \A i \in 1..Len(conn_log) :
         /\ Len(conn_log[i].written) = 1
         /\ conn_log[i].closed
         /\ conn_log[i].payload.kind = "malformed" =>
               /\ conn_log[i].written[1].status = "error"
               /\ conn_log[i].written[1].id = None
               /\ conn_log[i].written[1].result = [error |-> "Invalid JSON: JSONDecodeError"]

-----------------------------------------------------------------------------
(* Properties of the immediate speak *)

\* the responses to speak requests sent with queue = false
ImmediateResponses ==
    {i \in 1..Len(responses) :
        /\ responses[i].method = "speak"
        /\ ~ShouldQueue(responses[i].params)}

\* C29: a speak request with queue = false is answered with status 'success'
\* and the terminal result {played, saved, cached}, in which exactly one of
\* played and saved is set.
C29_ImmediateResult ==
    \A i \in ImmediateResponses :
        /\ responses[i].status = "success"
        /\ DOMAIN responses[i].result = {"played", "saved", "cached"}
        /\ responses[i].result.played = (responses[i].result.saved = None)

-----------------------------------------------------------------------------
(* Properties of SimilarityIndex.add *)

-----------------------------------------------------------------------------
(* Properties of the load of SimilarityIndex *)

\* the step constructs a SimilarityIndex
LoadStep == Len(sim_loads') = Len(sim_loads) + 1

\* C31: after a load, whichever file is missing or corrupt, the index holds
\* exactly the rows of the loaded array, in the array's order (empty when the
\* array is absent), so the position search reports for a vector is its
\* position in the array.
C31_IndexMatchesArray ==
    [][LoadStep =>
          /\ sim_embeddings' = _load_embeddings(embeddings_npy)
          /\ sim_index' = sim_embeddings']_vars

-----------------------------------------------------------------------------
(* Properties of search_multiple *)

\* the similarity of the query of the latest search to position p of the index
\* it ran on
SimAt(p) == Similarity(L2Distance(sq_call.query, sq_call.index[p + 1]))

\* the positions the latest search returned
ReturnedPositions == {sq_result.results[i][1] : i \in 1..Len(sq_result.results)}

\* C32: a search with a valid query and threshold does not raise; each result
\* is a position of the index with its similarity, which is at least the
\* threshold; the results are in descending order of similarity, distinct and
\* at most k; a position left out is below the threshold, or the k results
\* returned are all at least as similar, so a similarity equal to the threshold
\* is a hit; on an empty index the result is empty.
C32_SearchResults ==
    (sq_call # NoSearch /\ sq_result.raised = None) =>
       LET res == sq_result.results
           n == Len(sq_call.index)
       IN /\ \A i \in 1..Len(res) :
               /\ res[i][1] \in 0..(n - 1)
               /\ res[i][2] = SimAt(res[i][1])
               /\ res[i][2] >= sq_call.threshold
          /\ \A i, j \in 1..Len(res) : i < j =>
               /\ res[i][2] >= res[j][2]
               /\ res[i][1] # res[j][1]
          /\ Len(res) <= sq_call.k
          /\ \A p \in (0..(n - 1)) \ ReturnedPositions :
               \/ SimAt(p) < sq_call.threshold
               \/ /\ Len(res) = sq_call.k
                  /\ \A i \in 1..Len(res) : res[i][2] >= SimAt(p)
          /\ n = 0 => res = <<>>

\* a search whose second result has a similarity equal to the threshold, with
\* a third vector of the index below it
C32_Witness ==
    /\ sq_result.raised = None
    /\ Len(sq_call.index) = 3
    /\ sq_call.threshold = 900
    /\ Len(sq_result.results) = 2
    /\ sq_result.results[1][2] = 1000
    /\ sq_result.results[2][2] = 900

\* C32, the empty index: searches on it return the empty list
C32_EmptyWitness ==
    /\ sq_call # NoSearch
    /\ sq_call.index = <<>>
    /\ sq_result = NoSearchResult

-----------------------------------------------------------------------------
(* Properties of the HTTP API *)

\* the step answers an HTTP request
HttpStep == Len(http_log') = Len(http_log) + 1

\* C33: with a key configured, a request to any of the three routes whose
\* X-API-Key is absent or is not the key is answered 401 with success false,
\* a message and data null, and the daemon's state is as before; a request
\* with the key, and every request when no key is configured, is not
\* answered 401.
C33_ApiKey ==
    [][HttpStep =>
          LET entry == http_log'[Len(http_log')]
          IN IF Truthy(expected_key) /\ entry.api_key # expected_key
             THEN /\ entry.response.status = 401
                  /\ entry.response.success = FALSE
                  /\ entry.response.message \in {"Missing API key. Please provide X-API-Key header", "Invalid API key"}
                  /\ entry.response.null
                  /\ daemon_vars' = daemon_vars
                  /\ cache_vars' = cache_vars
                  /\ pipeline_vars' = pipeline_vars
             ELSE entry.response.status # 401]_vars

\* after one speak request with the key was queued, requests to the three
\* routes with another key and with none were answered 401
C33_Witness ==
    /\ expected_key = "test-secret-key-123"
    /\ Len(http_log) = 3
    /\ http_log[1].endpoint = "/speak" /\ http_log[1].response.status = 200
    /\ http_log[2].endpoint = "/speak" /\ http_log[2].api_key = "stolen"
    /\ http_log[2].response.status = 401
    /\ http_log[3].endpoint = "/queue" /\ http_log[3].api_key = None
    /\ http_log[3].response.status = 401
    /\ Len(enqueued) = 1

-----------------------------------------------------------------------------
(* Properties of cache_audio on a shared cache directory *)

\* the vector the file holds at a position, or None
PersistedAt(file, pos) == IF pos < Len(file.rows) THEN file.rows[pos + 1].value ELSE None

\* C34: under every interleaving of the cache_audio calls of the processes
\* sharing the directory, no two rows have the same embedding_idx, and the
\* vector both persisted files hold at a row's embedding_idx is the vector of
\* the row's text.
C34_Lockstep ==
    /\ \A i, j \in 1..Len(cache_rows) :
          i # j => cache_rows[i].embedding_idx # cache_rows[j].embedding_idx
    /\ \A i \in 1..Len(cache_rows) :
          /\ PersistedAt(embeddings_npy, cache_rows[i].embedding_idx) = Embed(cache_rows[i].text)
          /\ PersistedAt(faiss_index, cache_rows[i].embedding_idx) = Embed(cache_rows[i].text)

-----------------------------------------------------------------------------
(* Properties of the threshold of a lookup *)

\* C35: the lookup of every pipeline run used the cache_threshold the run was
\* given, with a manager created on demand as well as with a pre-loaded one.
C35_RequestThreshold ==
    \A i \in 1..Len(runs) :
        runs[i].lookup # "none" => runs[i].lookup_threshold = runs[i].cache_threshold

-----------------------------------------------------------------------------
(* Properties of the tracking list *)

\* a queue_status result is consistent: the size counts the waiting items and
\* the current one, which is not among the waiting
ConsistentStatus(result) ==
    /\ result.queue_size = Len(result.waiting) + (IF result.current # None THEN 1 ELSE 0)
    /\ \A i \in 1..Len(result.waiting) : result.waiting[i] # result.current

\* C36: in every state of the daemon the current item, when there is one, is
\* in the tracking list; the queue_status result of every state, and every
\* queue_status response sent, is consistent.
C36_CurrentTracked ==
    /\ current_item # None => \E i \in 1..Len(queue_items) : queue_items[i] = current_item
    /\ ConsistentStatus(handle_queue_status)
    /\ \A i \in 1..Len(responses) :
          responses[i].method = "queue_status" => ConsistentStatus(responses[i].result)

\* the worker holds an item as current while two more wait, after a
\* queue_status was answered
C36_Witness ==
    /\ current_item # None
    /\ Len(queue_items) = 3
    /\ handle_queue_status.queue_size = 3
    /\ Len(handle_queue_status.waiting) = 2
    /\ \E i \in 1..Len(responses) : responses[i].method = "queue_status"


-----------------------------------------------------------------------------
(* Properties of a failed put and the records stored before it *)

\* C37: a cache_audio that raises leaves the blob of every record stored
\* before it in place, with the bytes it had.
C37_ExistingServable ==
    [][PutRaises =>
          \A k \in 1..Len(db) :
              Exists(files, db[k].audio_path) =>
                  /\ Exists(files', db[k].audio_path)
                  /\ files'[db[k].audio_path] = files[db[k].audio_path]]_vars

\* the scope of C37's failure: the blobs of the records with another key than
\* the failed put's are left as they were
C37_OtherKeysServable ==
    [][PutRaises =>
          \A k \in 1..Len(db) :
              (/\ Exists(files, db[k].audio_path)
               /\ db[k].audio_path # AudioPath(last_put'.text, last_put'.provider, last_put'.voice)) =>
                  /\ Exists(files', db[k].audio_path)
                  /\ files'[db[k].audio_path] = files[db[k].audio_path]]_vars


-----------------------------------------------------------------------------
(* Properties of concurrent requests with one cache key *)

\* coroutine t looked up and missed, synthesized and stored, and is past that
MissedAndStored(t) ==
    /\ task[t].pc \in {"play", "done"}
    /\ task[t].lookup = "miss"
    /\ task[t].synthesized # None
    /\ task[t].put_calls = 1

\* the two coroutines had one cache key
SameKey(t, u) ==
    /\ task[t].text = task[u].text
    /\ task[t].provider = task[u].provider
    /\ VoiceOrEmpty(task[t].voice) = VoiceOrEmpty(task[u].voice)

\* the rows of the table with the key of coroutine t
RowsOfKey(t) ==
    {k \in 1..Len(db) : /\ db[k].text = task[t].text
                        /\ db[k].provider = task[t].provider
                        /\ db[k].voice = VoiceOrEmpty(task[t].voice)}

C38_OneRow ==
    \A t \in Tasks : \A u \in Tasks \ {t} :
        (MissedAndStored(t) /\ MissedAndStored(u) /\ SameKey(t, u)) =>
            Cardinality(RowsOfKey(t)) = 1

\* the case of C38 is reached: two coroutines with one key have both stored
C38_BothStored ==
    \E t \in Tasks : \E u \in Tasks \ {t} :
        MissedAndStored(t) /\ MissedAndStored(u) /\ SameKey(t, u)


-----------------------------------------------------------------------------
(* Properties of the daemon left behind by a forced restart *)

\* daemon d runs and holds daemon.lock, and nothing is at the socket path
Orphaned(d) ==
    /\ daemon_pc[d] = "serving"
    /\ listening[d]
    /\ lock_holder = d
    /\ sock_file = None

\* C39: the ensure calls never leave a running daemon that holds the process
\* lock while its socket file is unlinked, the state from which no later
\* ensure call can return success.
C39_NoOrphanedDaemon == \A d \in Daemons : ~Orphaned(d)

\* what the orphaned daemon costs: an async call that returns while a daemon
\* is orphaned returns failure, whatever it spawned
C39_OrphanMeansFailure ==
    (er_pc = "returned" /\ er_variant = "async" /\ \E d \in Daemons : Orphaned(d)) =>
        er_result = "false"

\* an async call has returned while a daemon was orphaned, after spawning
C39_OrphanReturned ==
    /\ er_pc = "returned"
    /\ er_variant = "async"
    /\ er_spawned # {}
    /\ \E d \in Daemons : Orphaned(d)


-----------------------------------------------------------------------------
(* Properties of the cache key of a request without a voice *)

\* run i stored its audio for a request without an explicit voice, and run
\* i + 1 is a request without an explicit voice for that text and provider
StoredThenAsked(i) ==
    /\ i + 1 <= Len(runs)
    /\ ~Truthy(runs[i].voice) /\ ~Truthy(runs[i + 1].voice)
    /\ runs[i].text = runs[i + 1].text
    /\ runs[i].provider = runs[i + 1].provider
    /\ runs[i].put_calls = 1 /\ ~runs[i].put_raised
    /\ runs[i + 1].lookup # "none"

\* C40: requests without an explicit voice have one cache-key voice on both
\* paths, whether the voice is None or '', and the audio one of them stored
\* is hit by the next one for that text and provider.
C40_OneKeyVoice ==
    /\ \A i \in 1..Len(runs), j \in 1..Len(runs) :
          (~Truthy(runs[i].voice) /\ ~Truthy(runs[j].voice)) =>
              runs[i].key_voice = runs[j].key_voice
    /\ \A i \in 1..Len(runs) :
          StoredThenAsked(i) =>
              /\ runs[i + 1].lookup = "hit"
              /\ runs[i + 1].audio_out = runs[i].synthesized

\* what holds of C40: on one path None and '' give one key, and the next
\* request on that path hits
C40_OnePathOneKey ==
    \A i \in 1..Len(runs) :
        (StoredThenAsked(i) /\ runs[i].path = runs[i + 1].path) =>
            /\ runs[i].key_voice = runs[i + 1].key_voice
            /\ runs[i + 1].lookup = "hit"
            /\ runs[i + 1].audio_out = runs[i].synthesized

\* a request with voice None stored on one path and the next one with voice
\* '' on that path hit
C40_OnePathReached ==
    \E i \in 1..Len(runs) :
        /\ StoredThenAsked(i)
        /\ runs[i].path = runs[i + 1].path
        /\ runs[i].voice = None /\ runs[i + 1].voice = ""
        /\ runs[i + 1].lookup = "hit"

================================================================================
